---- MODULE Spec2Model ----
(***************************************************************************)
(* Post ingestion, classification cascade, notification tracking and the   *)
(* timestamp-normalised query path of the Facebook work notifier.          *)
(*                                                                         *)
(* Text values (titles, texts, raw timestamps, keywords) are sequences of  *)
(* one-character strings, so that the regular expressions and substring    *)
(* tests of the source are modelled by what they do.  Instants are whole   *)
(* minutes since 1970-01-01T00:00 in the server's time zone (UTC).         *)
(***************************************************************************)
EXTENDS Integers, Sequences, FiniteSets, TLC

(***************************************************************************)
(* Characters and strings                                                  *)
(***************************************************************************)
DigitChars == <<"0", "1", "2", "3", "4", "5", "6", "7", "8", "9">>

UpperChars == <<"A", "B", "C", "D", "E", "F", "G", "H", "I", "J", "K", "L", "M", "N", "O", "P", "Q", "R", "S", "T", "U", "V", "W", "X", "Y", "Z", "Æ", "Ø", "Å">>

LowerChars == <<"a", "b", "c", "d", "e", "f", "g", "h", "i", "j", "k", "l", "m", "n", "o", "p", "q", "r", "s", "t", "u", "v", "w", "x", "y", "z", "æ", "ø", "å">>

Range(f) == {f[i] : i \in DOMAIN f}

IsDigit(c) == c \in Range(DigitChars)

\* \w of a JavaScript regular expression without the u flag: [A-Za-z0-9_]
IsWordChar(c) ==
    \/ IsDigit(c)
    \/ c = "_"
    \/ \E i \in 1..26 : c = UpperChars[i] \/ c = LowerChars[i]

\* \s of a JavaScript regular expression (space and tab of the inputs used)
IsSpace(c) == c \in {" ", "\t"}

DigitVal(c) == (CHOOSE i \in DOMAIN DigitChars : DigitChars[i] = c) - 1

\* String.prototype.toLowerCase, one character
LowerChar(c) ==
    IF \E i \in DOMAIN UpperChars : UpperChars[i] = c
    THEN LowerChars[CHOOSE i \in DOMAIN UpperChars : UpperChars[i] = c]
    ELSE c

toLowerCase(s) == [i \in 1..Len(s) |-> LowerChar(s[i])]

\* \d+ anchored on the whole string
IsDigits(s) == Len(s) >= 1 /\ \A i \in 1..Len(s) : IsDigit(s[i])

\* \w+ anchored on the whole string
IsWord(s) == Len(s) >= 1 /\ \A i \in 1..Len(s) : IsWordChar(s[i])

\* parseInt of a string of decimal digits
parseInt(s) ==
    LET value[i \in 0..Len(s)] ==
            IF i = 0 THEN 0 ELSE 10 * value[i - 1] + DigitVal(s[i])
    IN  value[Len(s)]

\* String.prototype.includes
includes(s, k) ==
    \E i \in 1..(Len(s) - Len(k) + 1) : SubSeq(s, i, i + Len(k) - 1) = k

\* the regular expression a.*b, unanchored
includesThen(s, a, b) ==
    \E i \in 1..(Len(s) - Len(a) + 1) :
        /\ SubSeq(s, i, i + Len(a) - 1) = a
        /\ includes(SubSeq(s, i + Len(a), Len(s)), b)

\* the maximal runs of non-space characters of s, in order
TokenStarts(s) ==
    {i \in 1..Len(s) : ~IsSpace(s[i]) /\ (i = 1 \/ IsSpace(s[i - 1]))}

TokenEnd(s, i) ==
    CHOOSE e \in i..Len(s) :
        /\ \A j \in i..e : ~IsSpace(s[j])
        /\ (e = Len(s) \/ IsSpace(s[e + 1]))

Tokens(s) ==
    [k \in 1..Cardinality(TokenStarts(s)) |->
        LET i == CHOOSE x \in TokenStarts(s) :
                     Cardinality({y \in TokenStarts(s) : y < x}) = k - 1
        IN  SubSeq(s, i, TokenEnd(s, i))]

\* ^ and $ around tokens joined by \s+ : no space at either end
Trimmed(s) == Len(s) >= 1 /\ ~IsSpace(s[1]) /\ ~IsSpace(s[Len(s)])

\* (\d+):(\d+) anchored on the whole token
IsClock(t) ==
    \E i \in 1..Len(t) :
        /\ t[i] = ":"
        /\ IsDigits(SubSeq(t, 1, i - 1))
        /\ IsDigits(SubSeq(t, i + 1, Len(t)))

ColonAt(t) == CHOOSE i \in 1..Len(t) : t[i] = ":"

ClockHour(t) == parseInt(SubSeq(t, 1, ColonAt(t) - 1))

ClockMinute(t) == parseInt(SubSeq(t, ColonAt(t) + 1, Len(t)))

(***************************************************************************)
(* Calendar arithmetic of the JavaScript Date object                       *)
(***************************************************************************)
MinutesPerHour == 60

MinutesPerDay == 1440

IsLeap(y) == (y % 4 = 0 /\ y % 100 # 0) \/ y % 400 = 0

LeapsBefore(y) == ((y - 1) \div 4) - ((y - 1) \div 100) + ((y - 1) \div 400)

\* days from 1970-01-01 to January 1st of year y
DaysBeforeYear(y) == 365 * (y - 1970) + LeapsBefore(y) - LeapsBefore(1970)

MonthLengths(y) ==
    <<31, IF IsLeap(y) THEN 29 ELSE 28, 31, 30, 31, 30, 31, 31, 30, 31, 30, 31>>

\* days from January 1st to the first of month m (0-based) of year y
DaysBeforeMonth(y, m) ==
    LET before[k \in 0..12] ==
            IF k = 0 THEN 0 ELSE before[k - 1] + MonthLengths(y)[k]
    IN  before[m]

\* minutes from the epoch to a civil date and time; fields out of range carry over
CivilMinutes(y, monthIndex, day, hour, minute) ==
    (DaysBeforeYear(y) + DaysBeforeMonth(y, monthIndex) + (day - 1)) * MinutesPerDay
    + hour * MinutesPerHour + minute

\* new Date(year, monthIndex, day, hour, minute).getTime(): a year of 0..99
\* means 1900 + year
MakeDate(year, monthIndex, day, hour, minute) ==
    CivilMinutes(IF year >= 0 /\ year <= 99 THEN 1900 + year ELSE year,
                 monthIndex, day, hour, minute)

DayNumber(t) == t \div MinutesPerDay

YearRange == 1900..2100

getFullYear(t) ==
    CHOOSE y \in YearRange :
        DaysBeforeYear(y) <= DayNumber(t) /\ DayNumber(t) < DaysBeforeYear(y + 1)

getMonth(t) ==
    LET y == getFullYear(t)
        d == DayNumber(t) - DaysBeforeYear(y)
    IN  CHOOSE m \in 0..11 :
            DaysBeforeMonth(y, m) <= d /\ d < DaysBeforeMonth(y, m + 1)

getDate(t) ==
    LET y == getFullYear(t)
    IN  DayNumber(t) - DaysBeforeYear(y) - DaysBeforeMonth(y, getMonth(t)) + 1

\* Date.prototype.setFullYear(year): same month, day and time of day
setFullYear(t, year) ==
    CivilMinutes(year, getMonth(t), getDate(t), 0, 0) + (t % MinutesPerDay)

(***************************************************************************)
(* parseFacebookTimestamp                                                  *)
(***************************************************************************)
\* a Date object: its time value, or NaN for an Invalid Date
ValidDate(t) == [nan |-> FALSE, time |-> t]

InvalidDate == [nan |-> TRUE, time |-> 0]

monthMap ==
    << <<"J", "a", "n", "u", "a", "r", "y">>, <<"F", "e", "b", "r", "u", "a", "r", "y">>, <<"M", "a", "r", "c", "h">>, <<"A", "p", "r", "i", "l">>,
       <<"M", "a", "y">>, <<"J", "u", "n", "e">>, <<"J", "u", "l", "y">>, <<"A", "u", "g", "u", "s", "t">>,
       <<"S", "e", "p", "t", "e", "m", "b", "e", "r">>, <<"O", "c", "t", "o", "b", "e", "r">>, <<"N", "o", "v", "e", "m", "b", "e", "r">>, <<"D", "e", "c", "e", "m", "b", "e", "r">> >>

\* property names every object literal inherits from Object.prototype, for
\* which monthMap[name] is a function and not undefined
ObjectPrototypeKeys ==
    { <<"c", "o", "n", "s", "t", "r", "u", "c", "t", "o", "r">>, <<"t", "o", "S", "t", "r", "i", "n", "g">>, <<"t", "o", "L", "o", "c", "a", "l", "e", "S", "t", "r", "i", "n", "g">>, <<"v", "a", "l", "u", "e", "O", "f">>,
      <<"h", "a", "s", "O", "w", "n", "P", "r", "o", "p", "e", "r", "t", "y">>, <<"i", "s", "P", "r", "o", "t", "o", "t", "y", "p", "e", "O", "f">>, <<"p", "r", "o", "p", "e", "r", "t", "y", "I", "s", "E", "n", "u", "m", "e", "r", "a", "b", "l", "e">>,
      <<"_", "_", "p", "r", "o", "t", "o", "_", "_">>, <<"_", "_", "d", "e", "f", "i", "n", "e", "G", "e", "t", "t", "e", "r", "_", "_">>, <<"_", "_", "d", "e", "f", "i", "n", "e", "S", "e", "t", "t", "e", "r", "_", "_">>,
      <<"_", "_", "l", "o", "o", "k", "u", "p", "G", "e", "t", "t", "e", "r", "_", "_">>, <<"_", "_", "l", "o", "o", "k", "u", "p", "S", "e", "t", "t", "e", "r", "_", "_">> }

IsMonthName(m) == \E i \in DOMAIN monthMap : monthMap[i] = m

MonthIndex(m) == (CHOOSE i \in DOMAIN monthMap : monthMap[i] = m) - 1

\* monthMap[month] !== undefined
MonthDefined(m) == IsMonthName(m) \/ m \in ObjectPrototypeKeys

\* new Date(year, monthMap[month], day, hour, minute)
DateOfMonth(year, m, day, hour, minute) ==
    IF IsMonthName(m)
    THEN ValidDate(MakeDate(year, MonthIndex(m), day, hour, minute))
    ELSE InvalidDate

Weekdays ==
    { <<"s", "u", "n", "d", "a", "y">>, <<"m", "o", "n", "d", "a", "y">>, <<"t", "u", "e", "s", "d", "a", "y">>, <<"w", "e", "d", "n", "e", "s", "d", "a", "y">>, <<"t", "h", "u", "r", "s", "d", "a", "y">>,
      <<"f", "r", "i", "d", "a", "y">>, <<"s", "a", "t", "u", "r", "d", "a", "y">> }

WordAt == <<"a", "t">>

\* /^(?:Sunday|...|Saturday)\s+(\d+)\s+(\w+)\s+(\d{4})\s+at\s+(\d+):(\d+)$/i
fullDateMatch(s) ==
    LET t == Tokens(s)
    IN  /\ Trimmed(s)
        /\ Len(t) = 6
        /\ toLowerCase(t[1]) \in Weekdays
        /\ IsDigits(t[2])
        /\ IsWord(t[3])
        /\ IsDigits(t[4]) /\ Len(t[4]) = 4
        /\ toLowerCase(t[5]) = WordAt
        /\ IsClock(t[6])

\* /^(\d+)m$/, /^(\d+)h$/, /^(\d+)d$/
relativeMatch(s, unit) ==
    Len(s) >= 2 /\ s[Len(s)] = unit /\ IsDigits(SubSeq(s, 1, Len(s) - 1))

\* faulty variant: only the first digit of the amount is read
RelativeFirstDigit(s) == DigitVal(s[1])

RelativeAmount(s) == parseInt(SubSeq(s, 1, Len(s) - 1))

\* /^Yesterday\s+at\s+(\d+):(\d+)$/
yesterdayMatch(s) ==
    LET t == Tokens(s)
    IN  /\ Trimmed(s)
        /\ Len(t) = 3
        /\ t[1] = <<"Y", "e", "s", "t", "e", "r", "d", "a", "y">>
        /\ t[2] = WordAt
        /\ IsClock(t[3])

\* /^(\d+)\s+(\w+)\s+at\s+(\d+):(\d+)$/
dateTimeMatch(s) ==
    LET t == Tokens(s)
    IN  /\ Trimmed(s)
        /\ Len(t) = 4
        /\ IsDigits(t[1])
        /\ IsWord(t[2])
        /\ t[3] = WordAt
        /\ IsClock(t[4])

\* /^(\d+)\s+(\w+)\s+(\d{4})\s+at\s+(\d+):(\d+)$/
dateYearTimeMatch(s) ==
    LET t == Tokens(s)
    IN  /\ Trimmed(s)
        /\ Len(t) = 5
        /\ IsDigits(t[1])
        /\ IsWord(t[2])
        /\ IsDigits(t[3]) /\ Len(t[3]) = 4
        /\ t[4] = WordAt
        /\ IsClock(t[5])

\* /^(\d+)\s+(\w+)\s+(\d{4})$/
dateYearMatch(s) ==
    LET t == Tokens(s)
    IN  /\ Trimmed(s)
        /\ Len(t) = 3
        /\ IsDigits(t[1])
        /\ IsWord(t[2])
        /\ IsDigits(t[3]) /\ Len(t[3]) = 4

NoonHour == 12

\* faulty variant: the date is kept in this year even when that is later
\* than the clock
DateThisYear(t, clock) ==
    MakeDate(getFullYear(clock), MonthIndex(t[2]), parseInt(t[1]),
             ClockHour(t[4]), ClockMinute(t[4]))

\* the "DD Month at HH:MM" branch: this year, or last year when that is later
\* than the clock
DateThisOrLastYear(t, clock) ==
    LET year == getFullYear(clock)
        date == MakeDate(year, MonthIndex(t[2]), parseInt(t[1]),
                         ClockHour(t[4]), ClockMinute(t[4]))
    IN  IF date > clock THEN setFullYear(date, year - 1) ELSE date

\* the Date the function returns for the string timestamp when the clock
\* reads the instant clock
parseFacebookTimestamp(timestamp, clock) ==
    LET t == Tokens(timestamp)
    IN  IF fullDateMatch(timestamp) /\ MonthDefined(t[3])
        THEN DateOfMonth(parseInt(t[4]), t[3], parseInt(t[2]),
                         ClockHour(t[6]), ClockMinute(t[6]))
        ELSE IF relativeMatch(timestamp, "m")
        THEN ValidDate(clock - RelativeAmount(timestamp))
        ELSE IF relativeMatch(timestamp, "h")
        THEN ValidDate(clock - RelativeAmount(timestamp) * MinutesPerHour)
        ELSE IF relativeMatch(timestamp, "d")
        THEN ValidDate(clock - RelativeAmount(timestamp) * MinutesPerDay)
        ELSE IF yesterdayMatch(timestamp)
        THEN ValidDate((DayNumber(clock) - 1) * MinutesPerDay
                       + ClockHour(t[3]) * MinutesPerHour + ClockMinute(t[3]))
        ELSE IF dateTimeMatch(timestamp) /\ MonthDefined(t[2])
        THEN IF IsMonthName(t[2])
             THEN ValidDate(DateThisOrLastYear(t, clock))
             ELSE InvalidDate
        ELSE IF dateYearTimeMatch(timestamp) /\ MonthDefined(t[2])
        THEN DateOfMonth(parseInt(t[3]), t[2], parseInt(t[1]),
                         ClockHour(t[5]), ClockMinute(t[5]))
        ELSE IF dateYearMatch(timestamp) /\ MonthDefined(t[2])
        THEN DateOfMonth(parseInt(t[3]), t[2], parseInt(t[1]), NoonHour, 0)
        ELSE IF toLowerCase(timestamp) = <<"r", "e", "c", "e", "n", "t", "l", "y">>
        THEN ValidDate(clock - 1)
        ELSE ValidDate(0)

(***************************************************************************)
(* Classification cascade                                                  *)
(***************************************************************************)
NULL == << >>

Some(v) == <<v>>

CatTransport == <<"T", "r", "a", "n", "s", "p", "o", "r", "t", " ", "/", " ", "M", "o", "v", "i", "n", "g">>

CatPainting == <<"P", "a", "i", "n", "t", "i", "n", "g", " ", "/", " ", "R", "e", "n", "o", "v", "a", "t", "i", "o", "n">>

CatCleaning == <<"C", "l", "e", "a", "n", "i", "n", "g", " ", "/", " ", "G", "a", "r", "d", "e", "n">>

CatPlumbing == <<"P", "l", "u", "m", "b", "i", "n", "g">>

CatElectrical == <<"E", "l", "e", "c", "t", "r", "i", "c", "a", "l">>

CatAssembly == <<"A", "s", "s", "e", "m", "b", "l", "y", " ", "/", " ", "F", "u", "r", "n", "i", "t", "u", "r", "e">>

CatCarMechanic == <<"C", "a", "r", " ", "M", "e", "c", "h", "a", "n", "i", "c">>

CatItTech == <<"I", "T", " ", "/", " ", "T", "e", "c", "h">>

CatManualLabor == <<"M", "a", "n", "u", "a", "l", " ", "L", "a", "b", "o", "r">>

CatHandyman == <<"H", "a", "n", "d", "y", "m", "a", "n", " ", "/", " ", "M", "i", "s", "c">>

CatOther == <<"O", "t", "h", "e", "r">>

\* the ordered keyword rules: category, the substrings of which any one
\* matches, and the pairs a.*b of which any one matches
CategoryRules ==
    << [name |-> CatTransport,
        words |-> { <<"f", "l", "y", "t", "t", "e">>, <<"b", "æ", "r", "e">>, <<"t", "r", "a", "n", "s", "p", "o", "r", "t">>, <<"f", "r", "a", "k", "t", "e">>, <<"h", "e", "n", "t", "e">>,
                    <<"k", "j", "ø", "r", "e">>, <<"h", "e", "n", "g", "e", "r">> },
        pairs |-> {}],
       [name |-> CatPainting,
        words |-> { <<"m", "a", "l", "e">>, <<"s", "p", "a", "r", "k", "l", "e">>, <<"p", "u", "s", "s", "e">>, <<"o", "p", "p", "u", "s", "s", "i", "n", "g">>, <<"r", "e", "n", "o", "v", "e", "r", "e">>,
                    <<"s", "n", "e", "k", "k", "e", "r">>, <<"g", "u", "l", "v">>, <<"v", "e", "g", "g">>, <<"f", "l", "i", "s", "e", "r">>, <<"t", "a", "p", "e", "t">> },
        pairs |-> {}],
       [name |-> CatCleaning,
        words |-> { <<"v", "a", "s", "k">>, <<"r", "e", "n", "g", "j", "ø", "r", "i", "n", "g">>, <<"u", "t", "v", "a", "s", "k">>, <<"h", "a", "g", "e">>, <<"k", "l", "i", "p", "p", "e">>,
                    <<"m", "å", "k", "e">>, <<"s", "n", "ø">> },
        pairs |-> {}],
       [name |-> CatPlumbing,
        words |-> { <<"r", "ø", "r", "l", "e", "g", "g", "e", "r">>, <<"r", "ø", "r">>, <<"a", "v", "l", "ø", "p">>, <<"t", "o", "a", "l", "e", "t", "t">>, <<"d", "u", "s", "j">>,
                    <<"v", "a", "n", "n">>, <<"v", "v", "s">> },
        pairs |-> {}],
       [name |-> CatElectrical,
        words |-> { <<"e", "l", "e", "k", "t", "r", "i", "k", "e", "r">>, <<"s", "t", "r", "ø", "m">>, <<"s", "i", "k", "r", "i", "n", "g">>, <<"l", "y", "s">>,
                    <<"s", "t", "i", "k", "k", "o", "n", "t", "a", "k", "t">>, <<"k", "u", "r", "s">> },
        pairs |-> {}],
       [name |-> CatAssembly,
        words |-> { <<"m", "o", "n", "t", "e", "r", "e">>, <<"d", "e", "m", "o", "n", "t", "e", "r", "e">>, <<"i", "k", "e", "a">>, <<"m", "ø", "b", "l", "e", "r">>, <<"s", "k", "a", "p">>,
                    <<"s", "e", "n", "g">>, <<"h", "y", "l", "l", "e">> },
        pairs |-> { << <<"t", "v">>, <<"v", "e", "g", "g">> >> }],
       [name |-> CatCarMechanic,
        words |-> { <<"b", "i", "l">>, <<"m", "o", "t", "o", "r">>, <<"b", "r", "e", "m", "s", "e">>, <<"d", "e", "k", "k">>, <<"v", "e", "r", "k", "s", "t", "e", "d">>,
                    <<"m", "e", "k", "a", "n", "i", "k", "e", "r">> },
        pairs |-> { << <<"e", "u">>, <<"k", "o", "n", "t", "r", "o", "l", "l">> >> }],
       [name |-> CatItTech,
        words |-> { <<"p", "c">>, <<"d", "a", "t", "a">>, <<"m", "o", "b", "i", "l">>, <<"s", "k", "j", "e", "r", "m">>, <<"p", "r", "i", "n", "t", "e", "r">>,
                    <<"w", "i", "f", "i">>, <<"i", "n", "t", "e", "r", "n", "e", "t", "t">> },
        pairs |-> { << <<"s", "m", "a", "r", "t">>, <<"h", "j", "e", "m">> >> }],
       [name |-> CatManualLabor,
        words |-> { <<"l", "ø", "f", "t", "e">>, <<"b", "æ", "r", "e">>, <<"t", "u", "n", "g", "t">>, <<"r", "i", "v", "e">>, <<"d", "e", "m", "o", "l", "e", "r">>,
                    <<"r", "y", "d", "d", "e">>, <<"k", "a", "s", "t", "e">> },
        pairs |-> {}],
       [name |-> CatHandyman,
        words |-> { <<"r", "e", "p", "a", "r", "e", "r", "e">>, <<"f", "i", "k", "s", "e">>, <<"b", "y", "t", "t", "e">>, <<"o", "r", "d", "n", "e">>, <<"s", "m", "å", "j", "o", "b", "b">> },
        pairs |-> {}] >>

RuleMatches(rule, content) ==
    \/ \E k \in rule.words : includes(content, k)
    \/ \E p \in rule.pairs : includesThen(content, p[1], p[2])

\* faulty variant: the last rule that matches wins
lastMatchingCategory(title, text) ==
    LET content == toLowerCase(title \o <<" ">> \o text)
    IN  IF \E i \in DOMAIN CategoryRules : RuleMatches(CategoryRules[i], content)
        THEN CategoryRules[CHOOSE i \in DOMAIN CategoryRules :
                              /\ RuleMatches(CategoryRules[i], content)
                              /\ \A j \in (i + 1)..Len(CategoryRules) :
                                     ~RuleMatches(CategoryRules[j], content)].name
        ELSE CatOther

\* faulty variant: no category when no rule matches
matchingCategoryOrNone(title, text) ==
    LET content == toLowerCase(title \o <<" ">> \o text)
    IN  IF \E i \in DOMAIN CategoryRules : RuleMatches(CategoryRules[i], content)
        THEN CategoryRules[CHOOSE i \in DOMAIN CategoryRules :
                              /\ RuleMatches(CategoryRules[i], content)
                              /\ \A j \in 1..(i - 1) :
                                     ~RuleMatches(CategoryRules[j], content)].name
        ELSE << >>

\* the category of the first rule, in table order, that matches the
\* lower-cased title + ' ' + text; Other when none does
keywordCategory(title, text) ==
    LET content == toLowerCase(title \o <<" ">> \o text)
    IN  IF \E i \in DOMAIN CategoryRules : RuleMatches(CategoryRules[i], content)
        THEN CategoryRules[CHOOSE i \in DOMAIN CategoryRules :
                              /\ RuleMatches(CategoryRules[i], content)
                              /\ \A j \in 1..(i - 1) :
                                     ~RuleMatches(CategoryRules[j], content)].name
        ELSE CatOther

\* what the external classifier may answer: a success payload or a failure
AiOutputs ==
    { [category |-> CatTransport, secondaryCategories |-> <<CatManualLabor>>,
       location |-> <<"M", "o", "r", "t", "e", "n", "s", "r", "u", "d", ",", " ", "O", "s", "l", "o">>, features |-> [urgency |-> "normal"]] }

ClassifierAnswers ==
    {[ok |-> TRUE, payload |-> o] : o \in AiOutputs} \cup {[ok |-> FALSE]}

\* faulty variant: a classifier failure leaves the post unclassified
classifyOrGiveUp(title, text, answer) ==
    IF answer.ok
    THEN [tag |-> "AiSuccess",
          category |-> Some(answer.payload.category),
          secondary_categories |-> Some(answer.payload.secondaryCategories),
          location |-> Some(answer.payload.location),
          ai_features |-> Some(answer.payload.features)]
    ELSE [tag |-> "Unclassified",
          category |-> NULL,
          secondary_categories |-> NULL,
          location |-> NULL,
          ai_features |-> NULL]

\* classify(title, text): the classifier's output when it succeeds, the
\* keyword rules when it fails
classify(title, text, answer) ==
    IF answer.ok
    THEN [tag |-> "AiSuccess",
          category |-> Some(answer.payload.category),
          secondary_categories |-> Some(answer.payload.secondaryCategories),
          location |-> Some(answer.payload.location),
          ai_features |-> Some(answer.payload.features)]
    ELSE [tag |-> "KeywordFallback",
          category |-> Some(keywordCategory(title, text)),
          secondary_categories |-> NULL,
          location |-> NULL,
          ai_features |-> NULL]

(***************************************************************************)
(* Bounds and inputs                                                       *)
(***************************************************************************)
\* 2024-03-10T12:00, in minutes since the epoch
StartClock == 28501200

\* how far the clock moves when time passes
TickMinutes == 90

\* the instants the clock shows over a behaviour
ClockValues == {StartClock, StartClock + TickMinutes}

\* ingest() calls over a behaviour, and the processes that make them
MaxIngests == 2

Workers == {"w1", "w2"}

\* what the scraper may hand to ingest(): the post p1 seen twice with
\* different content, and the post p2
Scraped ==
    { [post_id |-> "p1", title |-> <<"F", "l", "y", "t", "t", "e", " ", "s", "o", "f", "a">>, text |-> <<"T", "r", "e", "n", "g", "e", "r", " ", "h", "j", "e", "l", "p">>,
       url |-> "https://fb/p1", timestamp |-> <<"2", "h">>,
       group_name |-> <<"S", "m", "a", "l", "l", " ", "J", "o", "b", "s", " ", "O", "s", "l", "o">>, group_url |-> "https://fb/g1"],
      [post_id |-> "p1", title |-> <<"V", "a", "s", "k">>, text |-> <<"v", "a", "s", "k", " ", "a", "v", " ", "m", "o", "b", "i", "l">>,
       url |-> "https://fb/p1?ref=2", timestamp |-> <<"Y", "e", "s", "t", "e", "r", "d", "a", "y", " ", "a", "t", " ", "1", "0", ":", "0", "0">>,
       group_name |-> <<"J", "o", "b", "s", " ", "A", "s", "k", "e", "r">>, group_url |-> "https://fb/g2"],
      [post_id |-> "p2", title |-> <<"H", "e", "i">>, text |-> <<"n", "o", "e", "n", " ", "s", "o", "m", " ", "k", "a", "n">>,
       url |-> "https://fb/p2", timestamp |-> <<"5", " ", "M", "a", "r", "c", "h", " ", "2", "0", "2", "4", " ", "a", "t", " ", "0", "9", ":", "0", "0">>,
       group_name |-> <<"S", "m", "a", "l", "l", " ", "J", "o", "b", "s", " ", "O", "s", "l", "o">>, group_url |-> "https://fb/g1"] }

\* posts a scrape run saves one after the other
MaxFeed == 3

AiSucceeds == CHOOSE a \in ClassifierAnswers : a.ok

AiFails == CHOOSE a \in ClassifierAnswers : ~a.ok

\* the scrape runs the read path is exercised on: the posts in the order
\* they are saved, with what the classifier answers for each; a legacy post
\* is one saved before the posted_at column was written
Feeds ==
    { << [post |-> [post_id |-> "a1", title |-> <<"F", "l", "y", "t", "t", "e", " ", "s", "o", "f", "a">>,
                    text |-> <<"T", "r", "e", "n", "g", "e", "r", " ", "h", "j", "e", "l", "p", " ", "m", "e", "d", " ", "f", "l", "y", "t", "t", "i", "n", "g">>,
                    url |-> "https://fb/a1", timestamp |-> <<"2", "h">>,
                    group_name |-> <<"S", "m", "a", "l", "l", " ", "J", "o", "b", "s", " ", "O", "s", "l", "o">>,
                    group_url |-> "https://fb/g1"],
          answer |-> AiSucceeds, legacy |-> FALSE],
         [post |-> [post_id |-> "a2", title |-> <<"V", "a", "s", "k">>,
                    text |-> <<"V", "a", "s", "k", " ", "a", "v", " ", "l", "e", "i", "l", "i", "g", "h", "e", "t">>,
                    url |-> "https://fb/a2", timestamp |-> <<"Y", "e", "s", "t", "e", "r", "d", "a", "y", " ", "a", "t", " ", "1", "0", ":", "0", "0">>,
                    group_name |-> <<"J", "o", "b", "s", " ", "A", "s", "k", "e", "r">>,
                    group_url |-> "https://fb/g2"],
          answer |-> AiFails, legacy |-> FALSE],
         [post |-> [post_id |-> "a3", title |-> <<"H", "e", "i">>,
                    text |-> <<"n", "o", "e", "n", " ", "s", "o", "m", " ", "k", "a", "n", " ", "m", "a", "l", "e">>,
                    url |-> "https://fb/a3", timestamp |-> <<"5", " ", "M", "a", "r", "c", "h", " ", "2", "0", "2", "4", " ", "a", "t", " ", "0", "9", ":", "0", "0">>,
                    group_name |-> <<"S", "m", "a", "l", "l", " ", "J", "o", "b", "s", " ", "O", "s", "l", "o">>,
                    group_url |-> "https://fb/g1"],
          answer |-> AiFails, legacy |-> TRUE],
         [post |-> [post_id |-> "a4", title |-> <<"I", "K", "E", "A">>,
                    text |-> <<"m", "o", "n", "t", "e", "r", "e", " ", "s", "k", "a", "p">>,
                    url |-> "https://fb/a4", timestamp |-> <<"5", " ", "M", "a", "r", "s", " ", "2", "0", "2", "4", " ", "a", "t", " ", "0", "9", ":", "0", "0">>,
                    group_name |-> <<"J", "o", "b", "s", " ", "A", "s", "k", "e", "r">>,
                    group_url |-> "https://fb/g2"],
          answer |-> AiFails, legacy |-> FALSE] >>,
      << [post |-> [post_id |-> "b1", title |-> <<"R", "y", "d", "d", "i", "n", "g">>,
                    text |-> <<"r", "y", "d", "d", "e", " ", "b", "o", "d">>,
                    url |-> "https://fb/b1", timestamp |-> <<"1", "0", " ", "M", "a", "r", "c", "h", " ", "2", "0", "2", "4", " ", "a", "t", " ", "1", "1", ":", "0", "0">>,
                    group_name |-> <<"J", "o", "b", "s", " ", "A", "s", "k", "e", "r">>,
                    group_url |-> "https://fb/g2"],
          answer |-> AiFails, legacy |-> FALSE],
         [post |-> [post_id |-> "b2", title |-> <<"H", "e", "n", "g", "e", "r">>,
                    text |-> <<"t", "r", "e", "n", "g", "e", "r", " ", "h", "e", "n", "g", "e", "r">>,
                    url |-> "https://fb/b2", timestamp |-> <<"2", "h">>,
                    group_name |-> <<"S", "m", "a", "l", "l", " ", "J", "o", "b", "s", " ", "O", "s", "l", "o">>,
                    group_url |-> "https://fb/g1"],
          answer |-> AiSucceeds, legacy |-> FALSE],
         [post |-> [post_id |-> "b3", title |-> <<"L", "y", "s">>,
                    text |-> <<"b", "y", "t", "t", "e", " ", "l", "y", "s">>,
                    url |-> "https://fb/b3", timestamp |-> <<"5", " ", "c", "o", "n", "s", "t", "r", "u", "c", "t", "o", "r", " ", "2", "0", "2", "4", " ", "a", "t", " ", "0", "9", ":", "0", "0">>,
                    group_name |-> <<"S", "m", "a", "l", "l", " ", "J", "o", "b", "s", " ", "O", "s", "l", "o">>,
                    group_url |-> "https://fb/g1"],
          answer |-> AiFails, legacy |-> FALSE],
         [post |-> [post_id |-> "b4", title |-> <<"P", "C">>,
                    text |-> <<"p", "c", " ", "h", "j", "e", "l", "p">>,
                    url |-> "https://fb/b4", timestamp |-> <<"R", "e", "c", "e", "n", "t", "l", "y">>,
                    group_name |-> <<"J", "o", "b", "s", " ", "A", "s", "k", "e", "r">>,
                    group_url |-> "https://fb/g2"],
          answer |-> AiFails, legacy |-> FALSE] >>,
      << [post |-> [post_id |-> "c1", title |-> <<"M", "a", "l", "i", "n", "g">>,
                    text |-> <<"m", "a", "l", "e", " ", "s", "t", "u", "e">>,
                    url |-> "https://fb/c1", timestamp |-> <<"2", "h">>,
                    group_name |-> <<"J", "o", "b", "s", " ", "A", "s", "k", "e", "r">>,
                    group_url |-> "https://fb/g2"],
          answer |-> AiFails, legacy |-> FALSE],
         [post |-> [post_id |-> "c2", title |-> <<"H", "a", "g", "e">>,
                    text |-> <<"k", "l", "i", "p", "p", "e", " ", "p", "l", "e", "n">>,
                    url |-> "https://fb/c2", timestamp |-> <<"2", "h">>,
                    group_name |-> <<"S", "m", "a", "l", "l", " ", "J", "o", "b", "s", " ", "O", "s", "l", "o">>,
                    group_url |-> "https://fb/g1"],
          answer |-> AiFails, legacy |-> FALSE],
         [post |-> [post_id |-> "c3", title |-> <<"S", "o", "f", "a">>,
                    text |-> <<"h", "j", "e", "l", "p", " ", "m", "e", "d", " ", "s", "o", "f", "a">>,
                    url |-> "https://fb/c3", timestamp |-> <<"5", "m">>,
                    group_name |-> <<"J", "o", "b", "s", " ", "A", "s", "k", "e", "r">>,
                    group_url |-> "https://fb/g2"],
          answer |-> AiFails, legacy |-> FALSE] >> }

FeedItems == UNION {Range(F) : F \in Feeds}

FeedPosts == {item.post : item \in FeedItems}

PostIds == {r.post_id : r \in Scraped \cup FeedPosts}

\* raw timestamp strings handed to the parser on their own: each format of
\* the grammar, its edge cases, and strings of no format
RawTimestamps ==
    { <<"F", "r", "i", "d", "a", "y", " ", "8", " ", "M", "a", "r", "c", "h", " ", "2", "0", "2", "4", " ", "a", "t", " ", "1", "4", ":", "3", "0">>, <<"M", "o", "n", "d", "a", "y", " ", "8", " ", "M", "a", "r", "c", "h", " ", "2", "0", "2", "4", " ", "a", "t", " ", "1", "4", ":", "3", "0">>,
      <<"f", "r", "i", "d", "a", "y", " ", "8", " ", "M", "a", "r", "c", "h", " ", "2", "0", "2", "4", " ", "a", "t", " ", "1", "4", ":", "3", "0">>, <<"F", "r", "i", "d", "a", "y", " ", "8", " ", "m", "a", "r", "c", "h", " ", "2", "0", "2", "4", " ", "a", "t", " ", "1", "4", ":", "3", "0">>,
      <<"S", "o", "m", "e", "d", "a", "y", " ", "8", " ", "M", "a", "r", "c", "h", " ", "2", "0", "2", "4", " ", "a", "t", " ", "1", "4", ":", "3", "0">>, <<"S", "u", "n", "d", "a", "y", " ", "3", "1", " ", "D", "e", "c", "e", "m", "b", "e", "r", " ", "2", "0", "2", "3", " ", "a", "t", " ", "2", "3", ":", "5", "9">>,
      <<"0", "m">>, <<"5", "m">>, <<"4", "5", "m">>, <<"0", "h">>, <<"2", "h">>, <<"3", "0", "h">>, <<"1", "d">>, <<"3", "d">>, <<"4", "0", "0", "d">>,
      <<"2", "H">>, <<"2", " ", "h">>, <<"2", "h", " ", "a", "g", "o">>, <<"h">>,
      <<"Y", "e", "s", "t", "e", "r", "d", "a", "y", " ", "a", "t", " ", "1", "0", ":", "0", "0">>, <<"Y", "e", "s", "t", "e", "r", "d", "a", "y", " ", "a", "t", " ", "2", "3", ":", "5", "9">>, <<"y", "e", "s", "t", "e", "r", "d", "a", "y", " ", "a", "t", " ", "1", "0", ":", "0", "0">>,
      <<"2", "4", " ", "J", "a", "n", "u", "a", "r", "y", " ", "a", "t", " ", "0", "8", ":", "4", "2">>, <<"1", "0", " ", "M", "a", "r", "c", "h", " ", "a", "t", " ", "1", "1", ":", "0", "0">>, <<"1", "0", " ", "M", "a", "r", "c", "h", " ", "a", "t", " ", "1", "2", ":", "0", "0">>,
      <<"1", "0", " ", "M", "a", "r", "c", "h", " ", "a", "t", " ", "1", "2", ":", "0", "1">>, <<"1", "0", " ", "M", "a", "r", "c", "h", " ", "a", "t", " ", "1", "3", ":", "0", "0">>, <<"1", "0", " ", "M", "a", "r", "c", "h", " ", "a", "t", " ", "1", "3", ":", "3", "1">>,
      <<"2", "5", " ", "D", "e", "c", "e", "m", "b", "e", "r", " ", "a", "t", " ", "1", "8", ":", "0", "0">>, <<"2", "9", " ", "F", "e", "b", "r", "u", "a", "r", "y", " ", "a", "t", " ", "1", "0", ":", "0", "0">>, <<"2", "4", " ", "J", "a", "n", "u", "a", "r", " ", "a", "t", " ", "0", "8", ":", "4", "2">>,
      <<"2", "4", " ", "t", "o", "S", "t", "r", "i", "n", "g", " ", "a", "t", " ", "0", "8", ":", "4", "2">>,
      <<"5", " ", "M", "a", "r", "c", "h", " ", "2", "0", "2", "4", " ", "a", "t", " ", "0", "9", ":", "0", "0">>, <<"3", "1", " ", "D", "e", "c", "e", "m", "b", "e", "r", " ", "1", "9", "9", "9", " ", "a", "t", " ", "2", "3", ":", "5", "9">>,
      <<"5", " ", "M", "a", "r", "s", " ", "2", "0", "2", "4", " ", "a", "t", " ", "0", "9", ":", "0", "0">>, <<"5", " ", "c", "o", "n", "s", "t", "r", "u", "c", "t", "o", "r", " ", "2", "0", "2", "4", " ", "a", "t", " ", "0", "9", ":", "0", "0">>,
      <<"5", " ", "M", "a", "r", "c", "h", " ", "2", "0", "2", "4">>, <<"2", "9", " ", "F", "e", "b", "r", "u", "a", "r", "y", " ", "2", "0", "2", "4">>, <<"5", " ", "v", "a", "l", "u", "e", "O", "f", " ", "2", "0", "2", "4">>, <<"5", " ", "M", "a", "r", "c", "h", " ", "2", "4">>,
      <<"R", "e", "c", "e", "n", "t", "l", "y">>, <<"r", "e", "c", "e", "n", "t", "l", "y">>, <<"R", "E", "C", "E", "N", "T", "L", "Y">>, <<"R", "e", "c", "e", "n", "t", "l", "y", " ">>,
      <<"J", "u", "s", "t", " ", "n", "o", "w">>, <<"3", " ", "t", "i", "m", "e", "r">>, << >> }

Timestamps == {r.timestamp : r \in Scraped \cup FeedPosts} \cup RawTimestamps

\* parseFacebookTimestamp on the inputs of a behaviour, evaluated once
ParsedDates ==
    {<<ts, clock, parseFacebookTimestamp(ts, clock)>> :
        ts \in Timestamps, clock \in ClockValues}

DateOf(ts, clock) ==
    (CHOOSE e \in ParsedDates : e[1] = ts /\ e[2] = clock)[3]

\* the TimestampNormalizer of the ingestion path: the parser's instant, an
\* unknown month token falling through to the unrecognised-format sentinel
normalize(rawTimestamp, clock) ==
    LET d == DateOf(rawTimestamp, clock)
    IN  IF d.nan THEN 0 ELSE d.time

(***************************************************************************)
(* The posts table                                                         *)
(***************************************************************************)
VARIABLES
    store,            \* the rows of the posts table, in insertion order
    now,              \* the clock
    ingest,           \* per worker: the ingest() call it is executing
    started,          \* ingest() calls started so far
    classifierCalls,  \* per post_id: invocations of the external classifier
    concurrent,       \* per post_id: two ingest() calls for it have overlapped
    statsReq,         \* the stats request in progress, with what it has read
    parsed,           \* the last call of the timestamp parser and its result
    shown,            \* the last post the dashboard rendered, with its category
    sorting,          \* the comparison the sort of the posts handler is making
    ui,               \* the dashboard: its filters, its requests and its list
    resp              \* the response the step just taken sends, if any

vars ==
    <<store, now, ingest, started, classifierCalls, concurrent, statsReq,
      parsed, shown, sorting, ui, resp>>

\* faulty variants of the schema, each to be told apart from the schema by
\* a property below: columns that default to TRUE
NotifiedByDefault == TRUE

ProcessedByDefault == TRUE

\* column defaults of CREATE TABLE posts and of the ALTER TABLE migration
DefaultNotified == FALSE

DefaultAiProcessed == FALSE

\* faulty variant: post_id without its UNIQUE constraint
NoUniqueConstraint(s, post_id) == FALSE

\* post_id TEXT UNIQUE NOT NULL: an insert of a post_id the table holds fails
UniqueViolation(s, post_id) == \E i \in DOMAIN s : s[i].post_id = post_id

\* faulty variant: the row becomes visible before its text is written
RowWithoutText(r, posted_at, clock) ==
    [post_id |-> r.post_id, title |-> r.title, text |-> << >>, url |-> r.url,
     timestamp |-> r.timestamp, group_name |-> r.group_name,
     group_url |-> r.group_url,
     scraped_at |-> clock, notified |-> FALSE,
     created_at |-> clock, updated_at |-> clock,
     posted_at |-> posted_at,
     category |-> NULL, secondary_categories |-> NULL, location |-> NULL,
     ai_processed |-> FALSE, ai_features |-> NULL]

\* the row INSERT builds from the columns given and the column defaults
NewRow(r, posted_at, clock) ==
    [post_id |-> r.post_id, title |-> r.title, text |-> r.text, url |-> r.url,
     timestamp |-> r.timestamp, group_name |-> r.group_name,
     group_url |-> r.group_url,
     scraped_at |-> clock, notified |-> DefaultNotified,
     created_at |-> clock, updated_at |-> clock,
     posted_at |-> posted_at,
     category |-> NULL, secondary_categories |-> NULL, location |-> NULL,
     ai_processed |-> DefaultAiProcessed, ai_features |-> NULL]

\* faulty variants of the trigger: NOW() assigned to another timestamp column
\* as well
StampsCreatedAt(row, clock) ==
    [row EXCEPT !.updated_at = clock, !.created_at = clock]

StampsScrapedAt(row, clock) ==
    [row EXCEPT !.updated_at = clock, !.scraped_at = clock]

StampsPostedAt(row, clock) ==
    [row EXCEPT !.updated_at = clock, !.posted_at = Some(clock)]

\* trigger update_posts_updated_at: BEFORE UPDATE ... NEW.updated_at = NOW()
update_updated_at_column(row, clock) == [row EXCEPT !.updated_at = clock]

Exists(s, post_id) == \E i \in DOMAIN s : s[i].post_id = post_id

RowOf(s, post_id) == s[CHOOSE i \in DOMAIN s : s[i].post_id = post_id]

(***************************************************************************)
(* PostRepository.ingest                                                   *)
(***************************************************************************)
Idle ==
    [pc |-> "idle", post_id |-> NULL, raw |-> NULL, branch |-> "none",
     cls |-> NULL, result |-> "none", unseenAtStart |-> FALSE,
     processedAtStart |-> FALSE, calls |-> 0]

InFlight(c) == c.pc \notin {"idle", "done"}

PostIdOf(c) == c.post_id[1]

NoResponse == [posts |-> << >>, total |-> 0, limit |-> 0, offset |-> 0]

\* no stats request in progress
NoStats == [pc |-> "idle", total |-> 0, newPosts |-> 0]

\* faulty variant: the ai_processed gate is ignored
AlwaysNeedsClassification(row) == TRUE

\* whether an existing record still needs classification
NeedsClassification(row) == ~row.ai_processed

\* faulty variant: a failure of the classifier ends the ingest() call with
\* an error
ClassifiedOrRaised(c, answer) ==
    IF answer.ok
    THEN [c EXCEPT !.pc = "persist",
                   !.cls = Some(classify(c.raw[1].title, c.raw[1].text, answer)),
                   !.calls = @ + 1]
    ELSE [c EXCEPT !.pc = "done", !.result = "Failed", !.calls = @ + 1]

\* classify on the posts the scraper hands over and each answer of the
\* classifier, evaluated once
Classifications ==
    {<<r.title, r.text, a, classify(r.title, r.text, a)>> :
        r \in Scraped, a \in ClassifierAnswers}

\* the cascade runs: one call of the external classifier, which answers
Classified(c, answer) ==
    [c EXCEPT !.pc = "persist",
              !.cls = Some((CHOOSE e \in Classifications :
                               /\ e[1] = c.raw[1].title
                               /\ e[2] = c.raw[1].text
                               /\ e[3] = answer)[4]),
              !.calls = @ + 1]

\* faulty variant: a call that has its outcome looks the post up again
\* instead of returning
RetryForever(c, outcome) == [c EXCEPT !.pc = "lookup"]

\* the call returns
Returned(c, outcome) ==
    [c EXCEPT !.pc = "done", !.result = outcome, !.cls = NULL]

\* step 1, the lookup of the post_id: where the call c goes from what the
\* table s holds
Lookup(c, s, answer) ==
    IF ~Exists(s, PostIdOf(c))
    THEN [c EXCEPT !.pc = "insert"]
    ELSE IF NeedsClassification(RowOf(s, PostIdOf(c)))
    THEN Classified([c EXCEPT !.branch = "update"], answer)
    ELSE Returned(c, "Skipped")

\* the classifier calls a step adds for post_id p when call c becomes d
CallsAdded(c, d, p) == IF d.post_id = Some(p) THEN d.calls - c.calls ELSE 0

\* faulty variant: the UPDATE is scoped by the processed flag instead of
\* the post_id, so it reaches the rows of other posts
PersistUnprocessed(s, post_id, c, clock) ==
    [i \in DOMAIN s |->
        IF ~s[i].ai_processed
        THEN update_updated_at_column(
                 [s[i] EXCEPT !.category = c.category,
                              !.secondary_categories = c.secondary_categories,
                              !.location = c.location,
                              !.ai_features = c.ai_features,
                              !.ai_processed = TRUE], clock)
        ELSE s[i]]

\* UPDATE posts SET <classification fields>, ai_processed = TRUE
\* WHERE post_id = ...
PersistClassification(s, post_id, c, clock) ==
    [i \in DOMAIN s |->
        IF s[i].post_id = post_id
        THEN update_updated_at_column(
                 [s[i] EXCEPT !.category = c.category,
                              !.secondary_categories = c.secondary_categories,
                              !.location = c.location,
                              !.ai_features = c.ai_features,
                              !.ai_processed = TRUE], clock)
        ELSE s[i]]

\* a free worker is handed the scraped post r and looks its post_id up
IngestStart(w, r, answer) ==
    /\ ~InFlight(ingest[w])
    /\ started < MaxIngests
    /\ started' = started + 1
    /\ LET meets == {v \in Workers \ {w} :
                        InFlight(ingest[v]) /\ PostIdOf(ingest[v]) = r.post_id}
           call == [Idle EXCEPT
                      !.post_id = Some(r.post_id),
                      !.raw = Some(r),
                      !.unseenAtStart = ~Exists(store, r.post_id),
                      !.processedAtStart =
                          /\ Exists(store, r.post_id)
                          /\ RowOf(store, r.post_id).ai_processed]
           next == Lookup(call, store, answer)
       IN  /\ ingest' = [ingest EXCEPT ![w] = next]
           /\ concurrent' = [concurrent EXCEPT ![r.post_id] = @ \/ meets # {}]
           /\ classifierCalls' =
               [classifierCalls EXCEPT
                  ![r.post_id] = @ + CallsAdded(call, next, r.post_id)]
    /\ resp' = NoResponse
    /\ UNCHANGED <<sorting, ui, parsed, shown, store, now, statsReq>>

\* step 2, unseen post: insert the full record, then run the cascade; the
\* loser of a race on the unique key observes "already exists" and looks
\* the post up again
IngestInsert(w, answer) ==
    /\ ingest[w].pc = "insert"
    /\ LET r == ingest[w].raw[1]
       IN  IF UniqueViolation(store, r.post_id)
           THEN /\ ingest' = [ingest EXCEPT ![w].pc = "lookup"]
                /\ UNCHANGED <<store, classifierCalls>>
           ELSE /\ store' = Append(store,
                                   NewRow(r, Some(normalize(r.timestamp, now)), now))
                /\ ingest' = [ingest EXCEPT
                                ![w] = Classified([@ EXCEPT !.branch = "insert"],
                                                  answer)]
                /\ classifierCalls' = [classifierCalls EXCEPT ![r.post_id] = @ + 1]
    /\ resp' = NoResponse
    /\ UNCHANGED <<sorting, ui, parsed, shown, now, started, concurrent, statsReq>>

\* the lookup after a lost race
IngestLookup(w, answer) ==
    /\ ingest[w].pc = "lookup"
    /\ LET next == Lookup(ingest[w], store, answer)
           p == PostIdOf(ingest[w])
       IN  /\ ingest' = [ingest EXCEPT ![w] = next]
           /\ classifierCalls' =
               [classifierCalls EXCEPT ![p] = @ + CallsAdded(ingest[w], next, p)]
    /\ resp' = NoResponse
    /\ UNCHANGED <<sorting, ui, parsed, shown, store, now, started, concurrent, statsReq>>

\* step 3: persist the classification fields and return the outcome
IngestPersist(w) ==
    /\ ingest[w].pc = "persist"
    /\ store' = PersistClassification(store, PostIdOf(ingest[w]),
                                      ingest[w].cls[1], now)
    /\ ingest' = [ingest EXCEPT
                    ![w] = Returned(@, IF @.branch = "insert"
                                       THEN "Inserted"
                                       ELSE "ClassificationUpdated")]
    /\ resp' = NoResponse
    /\ UNCHANGED <<sorting, ui, parsed, shown, now, started, classifierCalls, concurrent, statsReq>>

(***************************************************************************)
(* NotificationTracker.markNotified                                        *)
(***************************************************************************)
\* faulty variant: the UPDATE is issued for a post already notified too
WritesNotifiedAgain(s, post_id, clock) ==
    [i \in DOMAIN s |->
        IF s[i].post_id = post_id
        THEN update_updated_at_column([s[i] EXCEPT !.notified = TRUE], clock)
        ELSE s[i]]

\* UPDATE posts SET notified = TRUE WHERE post_id = ...; nothing is written
\* for a post that is already notified
SetNotified(s, post_id, clock) ==
    [i \in DOMAIN s |->
        IF s[i].post_id = post_id /\ ~s[i].notified
        THEN update_updated_at_column([s[i] EXCEPT !.notified = TRUE], clock)
        ELSE s[i]]

markNotified(post_id) ==
    /\ Exists(store, post_id)
    /\ store' = SetNotified(store, post_id, now)
    /\ resp' = NoResponse
    /\ UNCHANGED <<sorting, ui, parsed, shown, now, ingest, started, classifierCalls, concurrent,
                   statsReq>>

(***************************************************************************)
(* QueryEngine: the posts endpoint                                         *)
(***************************************************************************)
DefaultLimit == 100

MaxLimit == 1000

Max(a, b) == IF a >= b THEN a ELSE b

Min(a, b) == IF a <= b THEN a ELSE b

\* Math.min(Math.max(parseInt(req.query.limit) || 100, 1), 1000); an absent
\* parameter parses to NaN, and NaN and 0 are both falsy
ClampLimit(q) ==
    LET n == IF q = NULL \/ q[1] = 0 THEN DefaultLimit ELSE q[1]
    IN  Min(Max(n, 1), MaxLimit)

\* Math.max(parseInt(req.query.offset) || 0, 0)
ClampOffset(q) == Max(IF q = NULL THEN 0 ELSE q[1], 0)

\* if (param): an absent or empty parameter sets no filter
Given(q) == q # NULL /\ q[1] # << >>

\* the pattern `%${term}%` the handler builds from a parameter
Wrap(term) == <<"%">> \o term \o <<"%">>

\* LIKE: % (for which the store's API also takes *) stands for any run of
\* characters and _ for any one character; the inputs hold no escape
\* character
like(s, p) ==
    LET m[i \in 0..Len(s), j \in 0..Len(p)] ==
            IF j = Len(p) THEN i = Len(s)
            ELSE IF p[j + 1] \in {"%", "*"}
            THEN m[i, j + 1] \/ (i < Len(s) /\ m[i + 1, j])
            ELSE /\ i < Len(s)
                 /\ p[j + 1] \in {"_", s[i + 1]}
                 /\ m[i + 1, j + 1]
    IN  m[0, 0]

\* a request with no parameter
NoParams ==
    [limit |-> NULL, offset |-> NULL, group_url |-> NULL, search |-> NULL,
     only_new |-> FALSE, category |-> NULL, location |-> NULL]

\* the request the notifier sends
Requests == { [NoParams EXCEPT !.only_new = TRUE] }

\* the requests the dashboard sends
QueryRequests ==
    { NoParams,
      [NoParams EXCEPT !.only_new = TRUE],
      [NoParams EXCEPT !.limit = Some(1), !.offset = Some(1)],
      [NoParams EXCEPT !.limit = Some(2), !.offset = Some(2)],
      [NoParams EXCEPT !.limit = Some(0), !.offset = Some(-1)],
      [NoParams EXCEPT !.group_url = Some(<<"o", "s", "l", "o">>), !.only_new = TRUE,
                       !.limit = Some(1)],
      [NoParams EXCEPT !.search = Some(<<"V", "A", "S", "K">>)],
      [NoParams EXCEPT !.search = Some(<<"_">>)],
      [NoParams EXCEPT !.search = Some(<<"h", "j", "e", "l", "p">>), !.category = Some(<<"m", "o", "v", "i", "n", "g">>)],
      [NoParams EXCEPT !.category = Some(<<"c", "l", "e", "a", "n", "i", "n", "g">>)],
      [NoParams EXCEPT !.location = Some(<<"o", "s", "l", "o">>), !.limit = Some(1)] }

\* the patterns the requests make, the column values they are matched
\* against, and the pairs that match, evaluated once
Patterns ==
    {Wrap(q.group_url[1]) : q \in {x \in QueryRequests : x.group_url # NULL}}
    \cup {Wrap(q.search[1]) : q \in {x \in QueryRequests : x.search # NULL}}
    \cup {Wrap(q.location[1]) : q \in {x \in QueryRequests : x.location # NULL}}

Columns ==
    {r.group_name : r \in Scraped \cup FeedPosts}
    \cup {r.title : r \in Scraped \cup FeedPosts}
    \cup {r.text : r \in Scraped \cup FeedPosts}
    \cup {o.location : o \in AiOutputs}

Matches ==
    {<<c, t, like(toLowerCase(c), toLowerCase(t))>> : c \in Columns, t \in Patterns}

\* column ILIKE pattern: LIKE without regard to letter case
ilike(column, pattern) ==
    IF column \in Columns /\ pattern \in Patterns
    THEN (CHOOSE e \in Matches : e[1] = column /\ e[2] = pattern)[3]
    ELSE like(toLowerCase(column), toLowerCase(pattern))

\* faulty variant: only_new is not applied
IgnoresOnlyNew(row, q) ==
    /\ Given(q.group_url) => ilike(row.group_name, Wrap(q.group_url[1]))
    /\ Given(q.search) =>
           \/ ilike(row.title, Wrap(q.search[1]))
           \/ ilike(row.text, Wrap(q.search[1]))
    /\ Given(q.location) =>
           row.location # NULL /\ ilike(row.location[1], Wrap(q.location[1]))

\* the filters pushed to the store: group, search, only_new, location
StoreFilter(row, q) ==
    /\ Given(q.group_url) => ilike(row.group_name, Wrap(q.group_url[1]))
    /\ Given(q.search) =>
           \/ ilike(row.title, Wrap(q.search[1]))
           \/ ilike(row.text, Wrap(q.search[1]))
    /\ q.only_new => row.notified = FALSE
    /\ Given(q.location) =>
           row.location # NULL /\ ilike(row.location[1], Wrap(q.location[1]))

\* the category filter applied to the fetched rows
CategoryFilter(row, q) ==
    Given(q.category) =>
        /\ row.category # NULL
        /\ row.category[1] # << >>
        /\ includes(toLowerCase(row.category[1]), toLowerCase(q.category[1]))

Candidates(s, q) ==
    {i \in DOMAIN s : StoreFilter(s[i], q) /\ CategoryFilter(s[i], q)}

\* the sort comparator: dateB.getTime() - dateA.getTime(), NaN when either
\* date is invalid, which Array.prototype.sort takes as 0
Compare(a, b, clock) ==
    LET dateA == DateOf(a.timestamp, clock)
        dateB == DateOf(b.timestamp, clock)
    IN  IF dateA.nan \/ dateB.nan THEN 0 ELSE dateB.time - dateA.time

Orderings(S) ==
    {f \in [1..Cardinality(S) -> S] :
        \A i, j \in 1..Cardinality(S) : i # j => f[i] # f[j]}

\* the orders sort() may leave the candidates in: no element is placed
\* before one the comparator puts first (the store returns rows in no
\* particular order, so ties may come out either way)
SortedOrders(s, S, clock) ==
    {f \in Orderings(S) :
        \A i, j \in 1..Cardinality(S) :
            i < j => Compare(s[f[i]], s[f[j]], clock) <= 0}

\* Array.prototype.slice(offset, offset + limit)
Slice(f, offset, limit) ==
    SubSeq(f, offset + 1, Min(Len(f), offset + limit))

\* faulty variant: total is a count of the whole table, taken apart from the
\* filtered rows the page is cut from
ResponseCountsAll(s, q, f) ==
    LET page == Slice(f, ClampOffset(q.offset), ClampLimit(q.limit))
    IN  [posts |-> [k \in DOMAIN page |-> s[page[k]]],
         total |-> Len(s),
         limit |-> ClampLimit(q.limit),
         offset |-> ClampOffset(q.offset),
         request |-> q]

\* the body of the 200 response to request q when sort() leaves the
\* candidates of table s in the order f; the request is kept with it
Response(s, q, f) ==
    LET page == Slice(f, ClampOffset(q.offset), ClampLimit(q.limit))
    IN  [posts |-> [k \in DOMAIN page |-> s[page[k]]],
         total |-> Len(f),
         limit |-> ClampLimit(q.limit),
         offset |-> ClampOffset(q.offset),
         request |-> q]

\* faulty variant: the handler writes the instant it computes for a post
\* without posted_at back to the table
queryAndBackfill(q) ==
    /\ \E f \in SortedOrders(store, Candidates(store, q), now) :
          resp' = Response(store, q, f)
    /\ store' =
           [i \in DOMAIN store |->
               IF store[i].posted_at = NULL
               THEN [store[i] EXCEPT
                       !.posted_at = Some(normalize(store[i].timestamp, now))]
               ELSE store[i]]
    /\ UNCHANGED <<sorting, ui, parsed, shown, now, ingest, started, classifierCalls, concurrent,
                   statsReq>>

\* faulty variant: the handler classifies the posts it finds unprocessed
\* before it answers
queryAndClassify(q) ==
    /\ \E f \in SortedOrders(store, Candidates(store, q), now) :
          resp' = Response(store, q, f)
    /\ classifierCalls' =
           [p \in DOMAIN classifierCalls |->
               IF Exists(store, p) /\ NeedsClassification(RowOf(store, p))
               THEN classifierCalls[p] + 1
               ELSE classifierCalls[p]]
    /\ UNCHANGED <<sorting, ui, parsed, shown, store, now, ingest, started, concurrent,
                   statsReq>>

\* GET /api/posts
query(q) ==
    /\ \E f \in SortedOrders(store, Candidates(store, q), now) :
          resp' = Response(store, q, f)
    /\ UNCHANGED <<sorting, ui, parsed, shown, store, now, ingest, started, classifierCalls, concurrent,
                   statsReq>>

(***************************************************************************)
(* The single-post endpoint and the stats endpoint                         *)
(***************************************************************************)
\* the post_id values lookups are made with: the known ones, one no post
\* has, and none at all
LookupIds == PostIds \cup {"p0", ""}

\* faulty variant: a lookup that finds no row answers 200 with no post
getPostOrEmpty(post_id) ==
    /\ resp' = IF post_id = ""
               THEN [status |-> 400, error |-> "Invalid post ID"]
               ELSE IF Cardinality({i \in DOMAIN store :
                                       store[i].post_id = post_id}) # 1
               THEN [status |-> 200, post |-> NULL]
               ELSE [status |-> 200, post |-> RowOf(store, post_id)]
    /\ UNCHANGED <<sorting, ui, parsed, shown, store, now, ingest, started, classifierCalls,
                   concurrent, statsReq>>

\* GET /api/posts/[post_id]: .eq('post_id', post_id).single()
getPost(post_id) ==
    /\ resp' = IF post_id = ""
               THEN [status |-> 400, error |-> "Invalid post ID"]
               ELSE IF Cardinality({i \in DOMAIN store :
                                       store[i].post_id = post_id}) # 1
               THEN [status |-> 404, error |-> "Post not found"]
               ELSE [status |-> 200, post |-> RowOf(store, post_id)]
    /\ UNCHANGED <<sorting, ui, parsed, shown, store, now, ingest, started, classifierCalls, concurrent,
                   statsReq>>

\* post.group_name || 'Unknown'
GroupKey(row) ==
    IF row.group_name = << >> THEN <<"U", "n", "k", "n", "o", "w", "n">> ELSE row.group_name

\* groupCounts
GroupCounts(s) ==
    [g \in {GroupKey(s[i]) : i \in DOMAIN s} |->
        Cardinality({i \in DOMAIN s : GroupKey(s[i]) = g})]

\* byGroup: the entries of groupCounts, sorted by descending count
ByGroup(s) ==
    LET counts == GroupCounts(s)
        entries == {[group |-> g, count |-> counts[g]] : g \in DOMAIN counts}
    IN  {f \in Orderings(entries) :
            \A i, j \in DOMAIN f : i < j => f[i].count >= f[j].count}

\* GET /api/stats, first read: the count of all posts
statsTotal ==
    /\ statsReq.pc = "idle"
    /\ statsReq' = [pc |-> "new", total |-> Len(store), newPosts |-> 0]
    /\ resp' = NoResponse
    /\ UNCHANGED <<sorting, ui, parsed, shown, store, now, ingest, started, classifierCalls, concurrent>>

\* second read: the count of the posts not notified
statsNew ==
    /\ statsReq.pc = "new"
    /\ statsReq' =
           [statsReq EXCEPT
              !.pc = "groups",
              !.newPosts = Cardinality({i \in DOMAIN store :
                                           store[i].notified = FALSE})]
    /\ resp' = NoResponse
    /\ UNCHANGED <<sorting, ui, parsed, shown, store, now, ingest, started, classifierCalls, concurrent>>

\* third read, the group_name of every post, and the response
statsGroups ==
    /\ statsReq.pc = "groups"
    /\ \E f \in ByGroup(store) :
          resp' = [total |-> statsReq.total, new |-> statsReq.newPosts,
                   by_group |-> f]
    /\ statsReq' = NoStats
    /\ UNCHANGED <<sorting, ui, parsed, shown, store, now, ingest, started, classifierCalls, concurrent>>

(***************************************************************************)
(* A scrape run: save_posts                                                *)
(***************************************************************************)
\* the table after ingest() of a feed item has run from lookup to return
\* with no other call in between
Saved(s, item, clock) ==
    LET r == item.post
        cls == classify(r.title, r.text, item.answer)
        posted_at == IF item.legacy
                     THEN NULL
                     ELSE Some(normalize(r.timestamp, clock))
    IN  IF ~Exists(s, r.post_id)
        THEN PersistClassification(Append(s, NewRow(r, posted_at, clock)),
                                   r.post_id, cls, clock)
        ELSE IF NeedsClassification(RowOf(s, r.post_id))
        THEN PersistClassification(s, r.post_id, cls, clock)
        ELSE s

\* the scrape run saves its next post
save_posts ==
    \E F \in Feeds :
        LET k == Len(store) + 1
        IN  /\ k <= MaxFeed
            /\ k <= Len(F)
            /\ \A i \in DOMAIN store : store[i].post_id = F[i].post.post_id
            /\ store' = Saved(store, F[k], now)
            /\ classifierCalls' =
                   [classifierCalls EXCEPT
                      ![F[k].post.post_id] =
                          IF /\ Exists(store, F[k].post.post_id)
                             /\ ~NeedsClassification(
                                    RowOf(store, F[k].post.post_id))
                          THEN @
                          ELSE @ + 1]
            /\ resp' = NoResponse
            /\ UNCHANGED <<sorting, ui, parsed, shown, now, ingest, started, concurrent, statsReq>>


(***************************************************************************)
(* The dashboard: the category shown for a post                            *)
(***************************************************************************)
CatGeneral == <<"G", "e", "n", "e", "r", "a", "l">>

\* titles and texts of the posts the dashboard is handed
DisplayTitles ==
    { <<"F", "l", "y", "t", "t", "e", " ", "s", "o", "f", "a">>, <<"V", "a", "s", "k">>, <<"H", "e", "i">>, <<"T", "V">>, <<"M", "o", "b", "i", "l">> }

DisplayTexts ==
    { <<"o", "g", " ", "v", "a", "s", "k", " ", "a", "v", " ", "l", "e", "i", "l", "i", "g", "h", "e", "t">>, <<"k", "a", "n", " ", "n", "o", "e", "n", " ", "f", "l", "y", "t", "t", "e", " ", "s", "o", "f", "a">>, <<"n", "o", "e", "n", " ", "s", "o", "m", " ", "k", "a", "n">>,
      <<"h", "e", "n", "g", "e", " ", "o", "p", "p", " ", "p", "å", " ", "v", "e", "g", "g">>, <<"b", "y", "t", "t", "e", " ", "s", "k", "j", "e", "r", "m">> }

\* what the classifier may have answered for them: the payloads of
\* AiOutputs, a payload with the category Other and one with General, or a
\* failure
DisplayAnswers ==
    ClassifierAnswers
    \cup {[ok |-> TRUE,
           payload |-> [category |-> k, secondaryCategories |-> << >>,
                        location |-> <<"A", "s", "k", "e", "r">>,
                        features |-> [urgency |-> "normal"]]] :
              k \in {CatOther, CatGeneral}}

\* the Post the API serves for a record with the classification c
PostWith(title, text, c, processed) ==
    [title |-> title, text |-> text, category |-> c.category,
     secondary_categories |-> c.secondary_categories, location |-> c.location,
     ai_features |-> c.ai_features, ai_processed |-> processed]

\* the posts handed to the dashboard, each with where its classification
\* came from: records classified at ingest, and records not yet classified
DisplayInputs ==
    {[post |-> PostWith(t, x, classify(t, x, a), TRUE),
      source |-> classify(t, x, a).tag,
      answer |-> a] :
        t \in DisplayTitles, x \in DisplayTexts, a \in DisplayAnswers}
    \cup
    {[post |-> PostWith(t, x, [category |-> NULL, secondary_categories |-> NULL,
                               location |-> NULL, ai_features |-> NULL], FALSE),
      source |-> "none",
      answer |-> [ok |-> FALSE]] :
        t \in DisplayTitles, x \in DisplayTexts}

\* faulty variant: the keyword rules are not consulted for a stored Other
\* or General
StoredCategoryOnly(post) ==
    IF post.category # NULL /\ post.category[1] # << >>
    THEN post.category[1]
    ELSE keywordCategory(post.title, post.text)

\* getCategoryDisplay(post).name: the stored category unless it is absent,
\* Other or General, else the keyword rules
getCategoryDisplay(post) ==
    IF /\ post.category # NULL
       /\ post.category[1] # << >>
       /\ post.category[1] # CatOther
       /\ post.category[1] # CatGeneral
    THEN post.category[1]
    ELSE keywordCategory(post.title, post.text)

\* nothing displayed yet
NoDisplay == [called |-> FALSE]

\* the dashboard renders the category of one post
DisplayCall(input) ==
    /\ shown' = [called |-> TRUE, post |-> input.post, source |-> input.source,
                 answer |-> input.answer,
                 name |-> getCategoryDisplay(input.post)]
    /\ resp' = NoResponse
    /\ UNCHANGED <<sorting, ui, store, now, ingest, started, classifierCalls, concurrent,
                   statsReq, parsed>>

(***************************************************************************)
(* The comparator of the posts handler's sort                              *)
(***************************************************************************)
\* sort() calls the comparator on two of the fetched rows:
\* const dateA = parseFacebookTimestamp(a.timestamp || ''), which reads the
\* clock
compareDateA(i, j) ==
    /\ sorting.pc # "dateA"
    /\ i # j
    /\ sorting' = [pc |-> "dateA", a |-> store[i], b |-> store[j],
                   clock |-> now, dateA |-> DateOf(store[i].timestamp, now),
                   dateB |-> DateOf(store[i].timestamp, now),
                   result |-> [nan |-> FALSE, value |-> 0]]
    /\ resp' = NoResponse
    /\ UNCHANGED <<ui, store, now, ingest, started, classifierCalls, concurrent,
                   statsReq, parsed, shown>>

\* const dateB = parseFacebookTimestamp(b.timestamp || ''), which reads the
\* clock again; return dateB.getTime() - dateA.getTime()
compareDateB ==
    /\ sorting.pc = "dateA"
    /\ LET dateB == DateOf(sorting.b.timestamp, now)
       IN  sorting' = [sorting EXCEPT
                         !.pc = "done",
                         !.dateB = dateB,
                         !.result = IF sorting.dateA.nan \/ dateB.nan
                                    THEN [nan |-> TRUE, value |-> 0]
                                    ELSE [nan |-> FALSE,
                                          value |-> dateB.time - sorting.dateA.time]]
    /\ resp' = NoResponse
    /\ UNCHANGED <<ui, store, now, ingest, started, classifierCalls, concurrent,
                   statsReq, parsed, shown>>

(***************************************************************************)
(* The dashboard: PostsPage                                                *)
(***************************************************************************)
\* posts per page: const PAGE_SIZE, 20 in the code, scaled to the feeds
PAGE_SIZE == 1

\* debounce timers that can be pending together before typing is held back
MaxTimers == 2

\* what the user can pick in the group select and type in the search box
GroupChoices == { << >>, <<"J", "o", "b", "s", " ", "A", "s", "k", "e", "r">> }

SearchChoices == { << >>, <<"v", "a", "s", "k">>, <<"h", "j", "e", "l", "p">> }

\* api.getPosts: the query parameters the client appends to the request;
\* the page sets neither only_new, category nor location here
getPosts(limit, offset, groupName, search) ==
    [limit |-> Some(limit),
     offset |-> Some(offset),
     group_name |-> IF groupName # << >> THEN Some(groupName) ELSE NULL,
     search |-> IF search # << >> THEN Some(search) ELSE NULL,
     only_new |-> FALSE, category |-> NULL, location |-> NULL]

\* the handler's parameter parsing: req.query.limit, .offset, .group_url,
\* .search, .only_new, .category, .location
queryOf(params) ==
    [limit |-> params.limit, offset |-> params.offset,
     group_url |-> IF "group_url" \in DOMAIN params
                   THEN params.group_url
                   ELSE NULL,
     search |-> params.search, only_new |-> params.only_new,
     category |-> params.category, location |-> params.location]

\* the filter values a request is made with
FiltersOf(u) == [group |-> u.groupFilter, search |-> u.searchFilter]

\* loadPosts(reset) up to its await: nothing when a load is in flight, else
\* the page is reset or marked as loading more and the request is sent
loadPosts(u, reset) ==
    IF u.loadingRef
    THEN u
    ELSE [u EXCEPT
            !.loadingRef = TRUE,
            !.offset = IF reset THEN 0 ELSE @,
            !.posts = IF reset THEN << >> ELSE @,
            !.loading = IF reset THEN TRUE ELSE @,
            !.loadingMore = IF reset THEN @ ELSE TRUE,
            !.request = Some([reset |-> reset,
                              offset |-> IF reset THEN 0 ELSE u.offset,
                              filters |-> FiltersOf(u),
                              params |-> getPosts(PAGE_SIZE,
                                                  IF reset THEN 0 ELSE u.offset,
                                                  u.groupFilter, u.searchFilter)])]

\* the page after it has mounted: the initial values of its state, the
\* initial load sent, the reload effect stopped by the guard
PostsPage ==
    loadPosts([groupFilter |-> << >>, searchFilter |-> << >>,
               searchInput |-> << >>, timers |-> << >>, refPending |-> FALSE,
               loadingRef |-> FALSE, request |-> NULL, posts |-> << >>,
               offset |-> 0, total |-> 0, hasMore |-> TRUE, loading |-> TRUE,
               loadingMore |-> FALSE, shownFor |-> {}], TRUE)

\* the rest of an action of the page: ui becomes u, nothing else moves
Rendered(u) ==
    /\ ui' = u
    /\ resp' = NoResponse
    /\ UNCHANGED <<sorting, store, now, ingest, started, classifierCalls,
                   concurrent, statsReq, parsed, shown>>

\* the user picks a group: setGroupFilter, then the reload effect
setGroupFilter(g) ==
    /\ g # ui.groupFilter
    /\ Rendered(loadPosts([ui EXCEPT !.groupFilter = g], TRUE))

\* faulty variant: a keystroke leaves the pending timer running
handleSearchChangeKeepTimer(value) ==
    /\ value # ui.searchInput
    /\ Len(ui.timers) < MaxTimers
    /\ Rendered([ui EXCEPT !.searchInput = value,
                           !.timers = Append(@, value),
                           !.refPending = TRUE])

\* a keystroke in the search box: the pending timer is cleared and a new
\* one is set
handleSearchChange(value) ==
    /\ value # ui.searchInput
    /\ Len(ui.timers) < MaxTimers
    /\ Rendered([ui EXCEPT
                   !.searchInput = value,
                   !.timers = Append(IF ui.refPending
                                     THEN SubSeq(@, 1, Len(@) - 1)
                                     ELSE @, value),
                   !.refPending = TRUE])

\* a debounce timer fires: setSearchFilter(value), then the reload effect
\* when the filter has changed
debounceFires ==
    /\ ui.timers # << >>
    /\ LET u == [ui EXCEPT !.searchFilter = Head(ui.timers),
                           !.timers = Tail(@),
                           !.refPending = IF Len(ui.timers) = 1 THEN FALSE ELSE @]
       IN  Rendered(IF u.searchFilter # ui.searchFilter
                    THEN loadPosts(u, TRUE)
                    ELSE u)

\* Enter in the search box: the pending timer is cleared and the input is
\* applied
onKeyDownEnter ==
    /\ ui.refPending \/ ui.searchFilter # ui.searchInput
    /\ LET u == [ui EXCEPT !.searchFilter = ui.searchInput,
                           !.timers = IF ui.refPending
                                      THEN SubSeq(@, 1, Len(@) - 1)
                                      ELSE @,
                           !.refPending = FALSE]
       IN  Rendered(IF u.searchFilter # ui.searchFilter
                    THEN loadPosts(u, TRUE)
                    ELSE u)

\* the scroll sentinel comes into view: loadPosts(false)
loadMore ==
    /\ ui.hasMore /\ ~ui.loading /\ ~ui.loadingMore
    /\ Rendered(loadPosts(ui, FALSE))

\* the auto-refresh interval fires: loadPosts(true)
autoRefresh ==
    /\ ~ui.loadingRef
    /\ Rendered(loadPosts(ui, TRUE))

\* the request in flight is answered by the posts handler and loadPosts
\* goes on after its await; requests do not fail
getPostsResolves ==
    /\ ui.request # NULL
    /\ LET rq == ui.request[1]
           q == queryOf(rq.params)
       IN  \E f \in SortedOrders(store, Candidates(store, q), now) :
               LET r == Response(store, q, f)
                   ids == [k \in DOMAIN r.posts |-> r.posts[k].post_id]
               IN  /\ ui' = [ui EXCEPT
                               !.posts = IF rq.reset THEN ids ELSE @ \o ids,
                               !.offset = IF rq.reset THEN Len(ids) ELSE @ + Len(ids),
                               !.total = r.total,
                               !.hasMore =
                                   /\ Len(ids) >= PAGE_SIZE
                                   /\ (IF rq.reset
                                       THEN Len(ids)
                                       ELSE rq.offset + Len(ids)) < r.total,
                               !.loading = FALSE,
                               !.loadingMore = FALSE,
                               !.loadingRef = FALSE,
                               !.request = NULL,
                               !.shownFor = IF rq.reset
                                            THEN {rq.filters}
                                            ELSE @ \cup {rq.filters}]
                   /\ resp' = r
    /\ UNCHANGED <<sorting, store, now, ingest, started, classifierCalls,
                   concurrent, statsReq, parsed, shown>>
(***************************************************************************)
(* The system                                                              *)
(***************************************************************************)
\* no call of the parser made yet
NoParse == [called |-> FALSE]

\* faulty variant: the parser answers from the table when a row with the
\* same raw timestamp has an instant stored
ParseCallFromStore(timestamp) ==
    /\ parsed' = [called |-> TRUE, timestamp |-> timestamp, clock |-> now,
                  date |-> IF \E i \in DOMAIN store :
                                  /\ store[i].timestamp = timestamp
                                  /\ store[i].posted_at # NULL
                           THEN ValidDate((CHOOSE r \in Range(store) :
                                    /\ r.timestamp = timestamp
                                    /\ r.posted_at # NULL).posted_at[1])
                           ELSE DateOf(timestamp, now)]
    /\ resp' = NoResponse
    /\ UNCHANGED <<sorting, ui, store, now, ingest, started, classifierCalls, concurrent,
                   statsReq, shown>>

\* one call parseFacebookTimestamp(timestamp): it reads the clock and
\* returns a Date
ParseCall(timestamp) ==
    /\ parsed' = [called |-> TRUE, timestamp |-> timestamp, clock |-> now,
                  date |-> DateOf(timestamp, now)]
    /\ resp' = NoResponse
    /\ UNCHANGED <<sorting, ui, store, now, ingest, started, classifierCalls, concurrent,
                   statsReq, shown>>

Tick ==
    /\ now + TickMinutes \in ClockValues
    /\ now' = now + TickMinutes
    /\ resp' = NoResponse
    /\ UNCHANGED <<sorting, ui, parsed, shown, store, ingest, started, classifierCalls, concurrent,
                   statsReq>>

Init ==
    /\ store = << >>
    /\ now = StartClock
    /\ ingest = [w \in Workers |-> Idle]
    /\ started = 0
    /\ classifierCalls = [p \in PostIds |-> 0]
    /\ concurrent = [p \in PostIds |-> FALSE]
    /\ statsReq = NoStats
    /\ parsed = NoParse
    /\ shown = NoDisplay
    /\ sorting = [pc |-> "idle"]
    /\ ui = PostsPage
    /\ resp = NoResponse

Next ==
    \/ \E w \in Workers, r \in Scraped, a \in ClassifierAnswers :
           IngestStart(w, r, a)
    \/ \E w \in Workers, a \in ClassifierAnswers : IngestInsert(w, a)
    \/ \E w \in Workers, a \in ClassifierAnswers : IngestLookup(w, a)
    \/ \E w \in Workers : IngestPersist(w)
    \/ \E p \in PostIds : markNotified(p)
    \/ \E q \in Requests : query(q)
    \/ Tick

Spec == Init /\ [][Next]_vars


\* the posts endpoint over the posts of a scrape run, with notifications
\* and the passage of time in between
QueryNext ==
    \/ save_posts
    \/ \E p \in PostIds : markNotified(p)
    \/ \E q \in QueryRequests : query(q)
    \/ Tick

QuerySpec == Init /\ [][QueryNext]_vars

\* the three read endpoints beside the writers
ReadNext ==
    \/ save_posts
    \/ \E p \in PostIds : markNotified(p)
    \/ \E q \in Requests : query(q)
    \/ \E p \in LookupIds : getPost(p)
    \/ statsTotal
    \/ statsNew
    \/ statsGroups

ReadSpec == Init /\ [][ReadNext]_vars

\* the timestamp parser called on its own, at either reading of the clock
\* and over any table a scrape run leaves
ParseNext ==
    \/ \E ts \in RawTimestamps : ParseCall(ts)
    \/ save_posts
    \/ Tick

ParseSpec == Init /\ [][ParseNext]_vars

\* the dashboard rendering the categories of the posts it is handed
DisplayNext == \E input \in DisplayInputs : DisplayCall(input)

DisplaySpec == Init /\ [][DisplayNext]_vars

\* reads of the posts endpoint and of the single-post lookup between the
\* steps of ingest() calls
ConcurrentNext ==
    \/ \E w \in Workers, r \in Scraped, a \in ClassifierAnswers :
           IngestStart(w, r, a)
    \/ \E w \in Workers, a \in ClassifierAnswers : IngestInsert(w, a)
    \/ \E w \in Workers, a \in ClassifierAnswers : IngestLookup(w, a)
    \/ \E w \in Workers : IngestPersist(w)
    \/ \E q \in Requests : query(q)
    \/ \E p \in LookupIds : getPost(p)

ConcurrentSpec == Init /\ [][ConcurrentNext]_vars

\* one step of the ingest() call worker w runs
IngestStep(w) ==
    \/ \E a \in ClassifierAnswers : IngestInsert(w, a)
    \/ \E a \in ClassifierAnswers : IngestLookup(w, a)
    \/ IngestPersist(w)

\* the same system under a scheduler that lets no started ingest() call
\* wait forever for its next step
FairSpec ==
    /\ Init
    /\ [][ConcurrentNext]_vars
    /\ \A w \in Workers : WF_vars(IngestStep(w))

\* the three read endpoints between the steps of ingest() calls
ReadPathNext ==
    \/ \E w \in Workers, r \in Scraped, a \in ClassifierAnswers :
           IngestStart(w, r, a)
    \/ \E w \in Workers, a \in ClassifierAnswers : IngestInsert(w, a)
    \/ \E w \in Workers, a \in ClassifierAnswers : IngestLookup(w, a)
    \/ \E w \in Workers : IngestPersist(w)
    \/ \E q \in Requests : query(q)
    \/ \E p \in {r.post_id : r \in Scraped} : getPost(p)
    \/ statsTotal
    \/ statsNew
    \/ statsGroups

ReadPathSpec == Init /\ [][ReadPathNext]_vars

\* the comparator calls of the posts handler's sort over the rows of a
\* scrape run, the clock moving on while the sort runs
SortNext ==
    \/ save_posts
    \/ \E i \in DOMAIN store, j \in DOMAIN store : compareDateA(i, j)
    \/ compareDateB
    \/ Tick

SortSpec == Init /\ [][SortNext]_vars

\* the list of the dashboard in use while a scrape run saves posts: group
\* filter, scrolling, auto-refresh
DashNext ==
    \/ save_posts
    \/ \E g \in GroupChoices : setGroupFilter(g)
    \/ loadMore
    \/ autoRefresh
    \/ getPostsResolves

DashSpec == Init /\ [][DashNext]_vars

\* the search box and the filters of the dashboard in use, with timers
\* that fire when due
SearchNext ==
    \/ \E g \in GroupChoices : setGroupFilter(g)
    \/ \E value \in SearchChoices : handleSearchChange(value)
    \/ debounceFires
    \/ onKeyDownEnter
    \/ autoRefresh
    \/ getPostsResolves

SearchSpec == Init /\ [][SearchNext]_vars /\ WF_vars(debounceFires)

(***************************************************************************)
(* Properties of ingestion and of the two permitted transitions            *)
(***************************************************************************)
Done(w) == ingest[w].pc = "done"

Outcomes == {"Inserted", "ClassificationUpdated", "Skipped"}

RowsOf(s, post_id) == {i \in DOMAIN s : s[i].post_id = post_id}

\* worker w starts an ingest() call in this step
Starts(w) ==
    /\ started' # started
    /\ ~InFlight(ingest[w])
    /\ ingest'[w] # ingest[w]

\* worker w returns from its ingest() call in this step
Returns(w) == InFlight(ingest[w]) /\ Done(w)'

\* the fields of a record that no operation may change after the insert
Immutable(row) ==
    <<row.post_id, row.title, row.text, row.url, row.group_name,
      row.group_url, row.timestamp, row.scraped_at>>

\* the classification fields of a record
Classification(row) ==
    <<row.category, row.secondary_categories, row.location, row.ai_features>>

\* the fields ClassificationUpdated must leave alone: the content, the
\* timestamp fields and notified
NotClassification(row) ==
    <<Immutable(row), row.posted_at, row.created_at, row.notified>>

\* C1: after any sequence and any interleaving of ingest() calls the store
\* holds at most one record per post_id
C1_OneRecordPerPostId ==
    \A i, j \in DOMAIN store : store[i].post_id = store[j].post_id => i = j

\* two calls for the same post_id have returned and one record stands for it
C1_Witness ==
    \E w, v \in Workers :
        /\ w # v
        /\ Done(w) /\ Done(v)
        /\ ingest[w].post_id = ingest[v].post_id
        /\ Cardinality(RowsOf(store, PostIdOf(ingest[w]))) = 1

\* C2: an ingest() of a post_id whose record has ai_processed = TRUE returns
\* Skipped at once, leaves every record as it is and calls no classifier
C2_SkippedIsNoOp ==
    [][\A w \in Workers :
          (/\ Starts(w)
           /\ Exists(store, PostIdOf(ingest'[w]))
           /\ RowOf(store, PostIdOf(ingest'[w])).ai_processed)
          => /\ Done(w)'
             /\ ingest'[w].result = "Skipped"
             /\ ingest'[w].calls = 0
             /\ store' = store
             /\ classifierCalls' = classifierCalls]_vars

\* a call that found its post processed has returned Skipped
C2_Witness ==
    \E w \in Workers :
        /\ Done(w)
        /\ ingest[w].processedAtStart
        /\ ingest[w].result = "Skipped"
        /\ RowOf(store, PostIdOf(ingest[w])).ai_processed

\* C3, as stated: for every post_id the classifier runs at most once over
\* any execution of ingest() calls for it
C3_AtMostOnceAlways == \A p \in PostIds : classifierCalls[p] <= 1

\* C3, amended: every ingest() call runs the classifier at most once, and
\* for a post_id whose ingest() calls never overlapped the classifier has
\* run at most once in all
C3_AtMostOnceUnlessOverlapped ==
    /\ \A w \in Workers : ingest[w].calls <= 1
    /\ \A p \in PostIds : ~concurrent[p] => classifierCalls[p] <= 1

\* a post ingested twice, one call after the other, and classified once
C3_Witness ==
    \E w \in Workers :
        /\ Done(w)
        /\ ~ingest[w].unseenAtStart
        /\ ~concurrent[PostIdOf(ingest[w])]
        /\ classifierCalls[PostIdOf(ingest[w])] = 1

\* C4: an ingest() of a post_id that exists with ai_processed = FALSE goes
\* through the update branch and returns ClassificationUpdated; its write
\* sets ai_processed and changes nothing but the classification fields (and
\* updated_at, which the trigger maintains): title, text, url, the group,
\* the timestamp fields and notified are as before, in every record
C4_ClassificationUpdatedFrame ==
    [][\A w \in Workers :
          /\ (/\ Starts(w)
              /\ Exists(store, PostIdOf(ingest'[w]))
              /\ ~RowOf(store, PostIdOf(ingest'[w])).ai_processed)
             => /\ ingest'[w].pc = "persist"
                /\ ingest'[w].branch = "update"
                /\ store' = store
          /\ (Returns(w) /\ ingest[w].branch = "update")
             => /\ ingest'[w].result = "ClassificationUpdated"
                /\ DOMAIN store' = DOMAIN store
                /\ \A i \in DOMAIN store :
                      /\ NotClassification(store'[i]) = NotClassification(store[i])
                      /\ store[i].post_id = PostIdOf(ingest[w])
                         => store'[i].ai_processed
                      /\ store[i].post_id # PostIdOf(ingest[w])
                         => store'[i] = store[i]]_vars

\* a call has returned ClassificationUpdated for a post it carried with a
\* text other than the stored one
C4_Witness ==
    \E w \in Workers :
        /\ Done(w)
        /\ ingest[w].result = "ClassificationUpdated"
        /\ RowOf(store, PostIdOf(ingest[w])).ai_processed
        /\ RowOf(store, PostIdOf(ingest[w])).text # ingest[w].raw[1].text

C6_RaceResolved ==
    /\ \A w \in Workers : Done(w) => ingest[w].result \in Outcomes
    /\ \A w, v \in Workers :
          (w # v /\ Done(w) /\ Done(v) /\ ingest[w].post_id = ingest[v].post_id)
          => /\ ~(ingest[w].result = "Inserted" /\ ingest[v].result = "Inserted")
             /\ (ingest[w].unseenAtStart /\ ingest[v].unseenAtStart)
                => \/ ingest[w].result = "Inserted"
                   \/ ingest[v].result = "Inserted"

\* two calls found the same post_id unseen; both have returned, the loser
\* through the update branch
C6_Witness ==
    \E w, v \in Workers :
        /\ w # v
        /\ Done(w) /\ Done(v)
        /\ ingest[w].post_id = ingest[v].post_id
        /\ ingest[w].unseenAtStart /\ ingest[v].unseenAtStart
        /\ ingest[w].result = "Inserted"
        /\ ingest[v].result \in {"ClassificationUpdated", "Skipped"}

\* C7: no step removes a record or changes its title, text, url, group_name,
\* group_url, timestamp or scraped_at; a step of an ingest() call leaves
\* notified alone, and changes the classification fields of a record only
\* when it is the write of a call that found ai_processed = FALSE
C7_ImmutableAfterInsert ==
    [][\A i \in DOMAIN store :
          /\ i \in DOMAIN store'
          /\ Immutable(store'[i]) = Immutable(store[i])
          /\ (ingest' # ingest) => store'[i].notified = store[i].notified
          /\ Classification(store'[i]) # Classification(store[i])
             => \E w \in Workers :
                   /\ Returns(w)
                   /\ PostIdOf(ingest[w]) = store[i].post_id
                   /\ ~ingest[w].processedAtStart]_vars

\* a second ingest of a post_id, carrying another title and text, has
\* returned, and the record holds neither
C7_Witness ==
    \E w \in Workers :
        /\ Done(w)
        /\ ~ingest[w].unseenAtStart
        /\ RowOf(store, PostIdOf(ingest[w])).text # ingest[w].raw[1].text
        /\ RowOf(store, PostIdOf(ingest[w])).title # ingest[w].raw[1].title
        /\ RowOf(store, PostIdOf(ingest[w])).url # ingest[w].raw[1].url

C10_NotifiedMonotonic ==
    [][/\ \A i \in DOMAIN store : store[i].notified => store'[i].notified
       /\ \A i \in DOMAIN store' \ DOMAIN store : ~store'[i].notified]_vars

\* a notified post has since been ingested again and written to, and is
\* notified still
C10_Witness ==
    \E w \in Workers :
        /\ Done(w)
        /\ ingest[w].result = "ClassificationUpdated"
        /\ \E v \in Workers \ {w} :
              /\ Done(v)
              /\ ingest[v].post_id = ingest[w].post_id
        /\ RowOf(store, PostIdOf(ingest[w])).notified

(***************************************************************************)
(* Properties of notification tracking and of the read path                *)
(***************************************************************************)
\* C11: markNotified is idempotent: on every reachable table a second
\* markNotified of a post, at the same or a later instant, leaves the table
\* the first one produced, and markNotified of a post already notified
\* leaves the table as it is
C11_MarkNotifiedIdempotent ==
    \A p \in PostIds :
        /\ \A c1, c2 \in ClockValues :
              c1 <= c2 =>
                  SetNotified(SetNotified(store, p, c1), p, c2)
                      = SetNotified(store, p, c1)
        /\ (Exists(store, p) /\ RowOf(store, p).notified)
           => SetNotified(store, p, now) = store

\* a post was marked notified, and the clock has moved on since: a second
\* write would show in updated_at
C11_Witness ==
    \E i \in DOMAIN store :
        /\ store[i].notified
        /\ store[i].updated_at # now
        /\ SetNotified(store, store[i].post_id, now) = store

\* C12: every record with ai_processed = TRUE has a category, whether the
\* classifier answered or failed
C12_ProcessedHasCategory ==
    \A i \in DOMAIN store : store[i].ai_processed => store[i].category # NULL

\* both a record classified by the classifier and one classified by the
\* keyword rules after a classifier failure are stored
C12_Witness ==
    /\ \E i \in DOMAIN store :
          /\ store[i].ai_processed
          /\ store[i].location # NULL
          /\ store[i].category = Some(CatTransport)
    /\ \E i \in DOMAIN store :
          /\ store[i].ai_processed
          /\ store[i].location = NULL
          /\ store[i].category =
                 Some(keywordCategory(store[i].title, store[i].text))

\* resp is the response to a posts request
IsQueryResponse == "request" \in DOMAIN resp

\* C13: reads never write: a step of the posts endpoint, of the single-post
\* endpoint or of the stats endpoint leaves every record of the table as it
\* is, the absent posted_at of a legacy record included
C13_ReadsNeverWrite ==
    [][(resp' # NoResponse \/ statsReq' # statsReq)
          => /\ store' = store
             /\ now' = now
             /\ classifierCalls' = classifierCalls]_vars

\* a posts request has been answered with a legacy record in its page, and
\* the record has no posted_at still
C13_Witness ==
    /\ IsQueryResponse
    /\ \E k \in DOMAIN resp.posts :
          /\ resp.posts[k].posted_at = NULL
          /\ RowOf(store, resp.posts[k].post_id).posted_at = NULL

\* C14: the response to a request with only_new holds no post that is
\* notified in the table, so none that markNotified has been applied to at
\* any time before
C14_OnlyNewExcludesNotified ==
    (IsQueryResponse /\ resp.request.only_new)
    => \A k \in DOMAIN resp.posts :
          /\ ~resp.posts[k].notified
          /\ ~RowOf(store, resp.posts[k].post_id).notified

\* a request with only_new has been answered after a post was marked
\* notified: the response holds the other post and counts it alone
C14_Witness ==
    /\ IsQueryResponse
    /\ resp.request.only_new
    /\ resp.total = 1
    /\ Len(store) = 2
    /\ \E i \in DOMAIN store :
          /\ store[i].notified
          /\ \A k \in DOMAIN resp.posts : resp.posts[k].post_id # store[i].post_id

\* C15: in every response of the posts endpoint, total is the number of rows
\* of the table that pass all the filters of the request (the set the page
\* was cut from in that same call), and the page holds
\* min(limit', max(0, total - offset')) posts.
C15_TotalAndPageSize ==
    IsQueryResponse =>
        LET matching == {i \in DOMAIN store :
                            /\ StoreFilter(store[i], resp.request)
                            /\ CategoryFilter(store[i], resp.request)}
        IN  /\ resp.total = Cardinality(matching)
            /\ Len(resp.posts) = Min(resp.limit, Max(0, resp.total - resp.offset))
            /\ \A k \in DOMAIN resp.posts :
                  \E i \in matching : store[i] = resp.posts[k]

C15_Witness ==
    /\ IsQueryResponse
    /\ resp.request.group_url # NULL
    /\ Len(store) = 3
    /\ resp.total = 2
    /\ resp.limit = 1
    /\ Len(resp.posts) = 1

\* C16: for every filter set and every table, the limit = 1 pages for
\* offset 0..N-1, fetched one after the other while the table stays as it
\* is, are the posts of the single page limit = N, offset = 0, in the same
\* order.  Tables in which two candidates sort as equal are left out, so
\* only the passing of time between the calls is at stake.
C16_PaginationConsistent ==
    \A q \in QueryRequests : \A later \in ClockValues :
        LET C == Candidates(store, q)
            N == Cardinality(C)
            NoTie(c) == \A i, j \in C :
                            i # j => Compare(store[i], store[j], c) # 0
            one(f, k) == Response(store, [q EXCEPT !.limit = Some(1),
                                                   !.offset = Some(k)], f).posts
            all(f) == Response(store, [q EXCEPT !.limit = Some(N),
                                                !.offset = Some(0)], f).posts
        IN  (later >= now /\ N > 0 /\ NoTie(now) /\ NoTie(later)) =>
                \A whole \in SortedOrders(store, C, now),
                   single \in SortedOrders(store, C, later) :
                    /\ Len(all(whole)) = N
                    /\ \A k \in 1..N : one(single, k - 1) = <<all(whole)[k]>>

\* the instant the posts are to be ordered by: the persisted posted_at of a
\* row that has one, else the instant read from its raw timestamp at clock
SortInstant(row, clock) ==
    IF row.posted_at # NULL THEN row.posted_at[1]
    ELSE normalize(row.timestamp, clock)

\* C17: every response of the posts endpoint lists its posts in descending
\* order of the persisted posted_at, an instant being computed from the raw
\* timestamp and the current time only for a post that has none persisted.
\* Stated for the posts whose raw timestamp the parser reads as a date.
C17_OrderedByPersistedInstant ==
    IsQueryResponse =>
        \A k, l \in DOMAIN resp.posts :
            (/\ k < l
             /\ ~DateOf(resp.posts[k].timestamp, now).nan
             /\ ~DateOf(resp.posts[l].timestamp, now).nan)
            => SortInstant(resp.posts[k], now) >= SortInstant(resp.posts[l], now)

\* C18: every request of the posts endpoint that gives an integer limit is
\* answered with limit' = min(max(limit, 1), 1000), every request that
\* gives an integer offset with offset' = max(offset, 0), a request that
\* gives neither with limit 100 and offset 0, and the response reports
\* limit' and offset'.
C18_PaginationClamped ==
    IsQueryResponse =>
        /\ resp.limit = IF resp.request.limit = NULL THEN DefaultLimit
                        ELSE Min(Max(resp.request.limit[1], 1), MaxLimit)
        /\ resp.offset = IF resp.request.offset = NULL THEN 0
                         ELSE Max(resp.request.offset[1], 0)

\* case-insensitive substring match of a filter value in a column value
Contains(value, term) == includes(toLowerCase(value), toLowerCase(term))

\* row passes every filter that request q gives, each read as a plain
\* substring match
Satisfies(row, q) ==
    /\ Given(q.group_url) => Contains(row.group_name, q.group_url[1])
    /\ Given(q.search) =>
           Contains(row.title, q.search[1]) \/ Contains(row.text, q.search[1])
    /\ q.only_new => ~row.notified
    /\ Given(q.category) =>
           row.category # NULL /\ Contains(row.category[1], q.category[1])
    /\ Given(q.location) =>
           row.location # NULL /\ Contains(row.location[1], q.location[1])

\* C19: the candidate set of every request of the posts endpoint is exactly
\* the rows of the table that satisfy every filter the request gives (group
\* in group_name, search as a case-insensitive substring of title or text,
\* only_new as notified = false, category and location as substrings); a
\* filter that is absent excludes nothing.
C19_FiltersCombineWithAnd ==
    IsQueryResponse =>
        /\ Candidates(store, resp.request)
               = {i \in DOMAIN store : Satisfies(store[i], resp.request)}
        /\ \A k \in DOMAIN resp.posts : Satisfies(resp.posts[k], resp.request)

\* the raw timestamp matches a rule of the timestamp grammar: a relative
\* age, "Yesterday at", a date whose month token is one of the twelve month
\* names, or "Recently"
Recognized(timestamp) ==
    LET t == Tokens(timestamp)
    IN  \/ relativeMatch(timestamp, "m")
        \/ relativeMatch(timestamp, "h")
        \/ relativeMatch(timestamp, "d")
        \/ yesterdayMatch(timestamp)
        \/ fullDateMatch(timestamp) /\ IsMonthName(t[3])
        \/ dateTimeMatch(timestamp) /\ IsMonthName(t[2])
        \/ dateYearTimeMatch(timestamp) /\ IsMonthName(t[2])
        \/ dateYearMatch(timestamp) /\ IsMonthName(t[2])
        \/ toLowerCase(timestamp) = <<"r", "e", "c", "e", "n", "t", "l", "y">>

\* C20: a raw timestamp that matches no rule of the grammar, a date with an
\* unknown month token included, is read as the "oldest" sentinel (the
\* epoch), and in every response of the posts endpoint a post with such a
\* timestamp comes after every post with a recognised one.
C20_UnrecognizedSortsLast ==
    /\ \A i \in DOMAIN store :
          ~Recognized(store[i].timestamp)
              => DateOf(store[i].timestamp, now) = ValidDate(0)
    /\ IsQueryResponse =>
          \A k, l \in DOMAIN resp.posts :
              (/\ ~Recognized(resp.posts[k].timestamp)
               /\ Recognized(resp.posts[l].timestamp)) => l < k

(***************************************************************************)
(* Properties of the timestamp parser                                      *)
(***************************************************************************)
\* C21: a raw timestamp "D Month at HH:MM" is read in the year of the clock;
\* when that instant is strictly after the clock it is read one year
\* earlier, and otherwise it is left in the year of the clock.
C21_NoYearRollsBackOnce ==
    LET t == Tokens(parsed.timestamp)
    IN  (/\ parsed.called
         /\ dateTimeMatch(parsed.timestamp)
         /\ IsMonthName(t[2])) =>
            LET thisYear == MakeDate(getFullYear(parsed.clock), MonthIndex(t[2]),
                                     parseInt(t[1]), ClockHour(t[4]),
                                     ClockMinute(t[4]))
                lastYear == MakeDate(getFullYear(parsed.clock) - 1,
                                     MonthIndex(t[2]), parseInt(t[1]),
                                     ClockHour(t[4]), ClockMinute(t[4]))
            IN  /\ ~parsed.date.nan
                /\ thisYear > parsed.clock => parsed.date.time = lastYear
                /\ thisYear <= parsed.clock => parsed.date.time = thisYear
                /\ parsed.date.time <= parsed.clock

C21_Witness ==
    /\ parsed.called
    /\ parsed.timestamp = <<"1", "0", " ", "M", "a", "r", "c", "h", " ", "a", "t", " ", "1", "3", ":", "0", "0">>
    /\ getFullYear(parsed.clock) = getFullYear(parsed.date.time) + 1
    /\ getMonth(parsed.date.time) = getMonth(parsed.clock)
    /\ getDate(parsed.date.time) = getDate(parsed.clock)

GrammarInstant(s, clock) ==
    LET t == Tokens(s)
        amount == parseInt(SubSeq(s, 1, Len(s) - 1))
        inYear(y, m, d, c) ==
            MakeDate(y, MonthIndex(m), parseInt(d), ClockHour(c), ClockMinute(c))
    IN  IF fullDateMatch(s) /\ IsMonthName(t[3])
        THEN inYear(parseInt(t[4]), t[3], t[2], t[6])
        ELSE IF relativeMatch(s, "m") THEN clock - amount
        ELSE IF relativeMatch(s, "h") THEN clock - amount * MinutesPerHour
        ELSE IF relativeMatch(s, "d") THEN clock - amount * MinutesPerDay
        ELSE IF yesterdayMatch(s)
        THEN MakeDate(getFullYear(clock), getMonth(clock), getDate(clock) - 1,
                      ClockHour(t[3]), ClockMinute(t[3]))
        ELSE IF dateTimeMatch(s) /\ IsMonthName(t[2])
        THEN IF inYear(getFullYear(clock), t[2], t[1], t[4]) > clock
             THEN inYear(getFullYear(clock) - 1, t[2], t[1], t[4])
             ELSE inYear(getFullYear(clock), t[2], t[1], t[4])
        ELSE IF dateYearTimeMatch(s) /\ IsMonthName(t[2])
        THEN inYear(parseInt(t[3]), t[2], t[1], t[5])
        ELSE IF dateYearMatch(s) /\ IsMonthName(t[2])
        THEN MakeDate(parseInt(t[3]), MonthIndex(t[2]), parseInt(t[1]),
                      NoonHour, 0)
        ELSE IF toLowerCase(s) = <<"r", "e", "c", "e", "n", "t", "l", "y">> THEN clock - 1
        ELSE 0

\* C24: the parser returns what the first matching rule of the grammar
\* gives: the full weekday form (the weekday not checked against the date),
\* Nm, Nh, Nd, "Yesterday at HH:MM", "D Month at HH:MM", "D Month YYYY at
\* HH:MM", "D Month YYYY" at noon, "Recently" in any letter case, and the
\* sentinel for everything else.
C24_FirstMatchingRule ==
    parsed.called =>
        parsed.date = ValidDate(GrammarInstant(parsed.timestamp, parsed.clock))

(***************************************************************************)
(* Properties of the classification cascade                                *)
(***************************************************************************)
\* C25: no ingest() call ends in a failure, and a call whose classifier
\* failed goes on with the result of the keyword rules: it persists that
\* category, marks the post processed, and returns Inserted or
\* ClassificationUpdated.
C25_ClassifierFailureFallsBack ==
    [][\A w \in Workers :
          /\ ingest'[w].pc = "done" =>
                 ingest'[w].result \in {"Inserted", "ClassificationUpdated",
                                        "Skipped"}
          /\ ingest'[w].pc = "persist" =>
                 ingest'[w].cls[1].tag \in {"AiSuccess", "KeywordFallback"}
          /\ (/\ ingest[w].pc = "persist"
              /\ ingest[w].cls[1].tag = "KeywordFallback"
              /\ ingest'[w] # ingest[w]) =>
                 LET r == ingest[w].raw[1]
                 IN  /\ ingest'[w].pc = "done"
                     /\ ingest'[w].result \in {"Inserted", "ClassificationUpdated"}
                     /\ RowOf(store', r.post_id).ai_processed
                     /\ RowOf(store', r.post_id).category
                            = Some(keywordCategory(r.title, r.text))]_vars

C25_Witness ==
    \E w \in Workers :
        /\ ingest[w].pc = "done"
        /\ ingest[w].result = "ClassificationUpdated"
        /\ LET row == RowOf(store, PostIdOf(ingest[w]))
           IN  /\ row.ai_processed
               /\ row.location = NULL
               /\ row.category = Some(keywordCategory(ingest[w].raw[1].title,
                                                      ingest[w].raw[1].text))

\* the order of the keyword rules
FallbackOrder ==
    <<CatTransport, CatPainting, CatCleaning, CatPlumbing, CatElectrical,
      CatAssembly, CatCarMechanic, CatItTech, CatManualLabor, CatHandyman>>

\* the rules of which a keyword occurs in the lower-cased title and text of
\* the post rendered last
ShownHits ==
    LET content == toLowerCase(shown.post.title \o <<" ">> \o shown.post.text)
    IN  {i \in DOMAIN CategoryRules : RuleMatches(CategoryRules[i], content)}

\* C26: the category the keyword rules give is that of the first rule, in
\* the order Transport/Moving, Painting/Renovation, Cleaning/Garden,
\* Plumbing, Electrical, Assembly/Furniture, Car Mechanic, IT/Tech, Manual
\* Labor, Handyman/Misc, of which a keyword occurs in the lower-cased title
\* and text; a post with a Transport keyword and a Cleaning keyword is
\* Transport/Moving wherever the keywords stand.
C26_FallbackPrecedence ==
    (shown.called /\ shown.source # "AiSuccess") =>
        /\ \A i \in DOMAIN CategoryRules : CategoryRules[i].name = FallbackOrder[i]
        /\ \A i \in ShownHits :
              (\A j \in ShownHits : i <= j) => shown.name = FallbackOrder[i]
        /\ (1 \in ShownHits /\ 3 \in ShownHits) => shown.name = CatTransport

C26_Witness ==
    /\ shown.called
    /\ shown.source = "KeywordFallback"
    /\ shown.post.title = <<"V", "a", "s", "k">>
    /\ shown.post.text = <<"k", "a", "n", " ", "n", "o", "e", "n", " ", "f", "l", "y", "t", "t", "e", " ", "s", "o", "f", "a">>
    /\ {1, 3} \subseteq ShownHits
    /\ shown.name = CatTransport

\* C27: the keyword rules give every title and text a category, Other when
\* no rule matches, so a post comes out of the fallback classified.
C27_FallbackTotal ==
    (shown.called /\ shown.source # "AiSuccess") =>
        /\ shown.name \in Range(FallbackOrder) \cup {CatOther}
        /\ ShownHits = {} => shown.name = CatOther
        /\ shown.source = "KeywordFallback" =>
               /\ shown.post.category # NULL
               /\ shown.post.category[1] \in Range(FallbackOrder) \cup {CatOther}

C27_Witness ==
    /\ shown.called
    /\ shown.source = "KeywordFallback"
    /\ ShownHits = {}
    /\ shown.post.category = Some(CatOther)
    /\ shown.name = CatOther

\* the classification fields of the post rendered last are the classifier's
\* payload as it was
StoredVerbatim ==
    /\ shown.post.category = Some(shown.answer.payload.category)
    /\ shown.post.secondary_categories
           = Some(shown.answer.payload.secondaryCategories)
    /\ shown.post.location = Some(shown.answer.payload.location)
    /\ shown.post.ai_features = Some(shown.answer.payload.features)

PostColumns ==
    {"post_id", "title", "text", "url", "timestamp", "group_name", "group_url",
     "scraped_at", "notified", "created_at", "updated_at", "posted_at",
     "category", "secondary_categories", "location", "ai_processed",
     "ai_features"}

\* C29: a lookup by a post_id the table holds answers 200 with the stored
\* record, all of its columns as they stand; a lookup by a post_id the
\* table does not hold answers 404 "Post not found", with no post in the
\* response.
C29_LookupFoundOrNotFound ==
    [][\A p \in LookupIds :
          (p # "" /\ getPost(p)) =>
              IF Exists(store, p)
              THEN /\ resp'.status = 200
                   /\ resp'.post = RowOf(store, p)
                   /\ DOMAIN resp'.post = PostColumns
              ELSE /\ resp'.status = 404
                   /\ resp'.error = "Post not found"
                   /\ "post" \notin DOMAIN resp']_vars

C29_Witness ==
    /\ "status" \in DOMAIN resp
    /\ resp.status = 200
    /\ resp.post = RowOf(store, resp.post.post_id)
    /\ resp.post.notified
    /\ resp.post.ai_processed
    /\ \E i \in DOMAIN store : store[i].post_id # resp.post.post_id

\* the posts a read has just returned
Visible ==
    IF IsQueryResponse THEN Range(resp.posts)
    ELSE IF "post" \in DOMAIN resp THEN {resp.post}
    ELSE {}

\* a record as one INSERT leaves it: every column present, the content
\* columns those of one scraped post, the timestamps and the flags set, and
\* the classification either absent or written whole
Whole(post) ==
    /\ DOMAIN post = PostColumns
    /\ \E r \in Scraped :
          /\ post.post_id = r.post_id /\ post.title = r.title
          /\ post.text = r.text /\ post.url = r.url
          /\ post.timestamp = r.timestamp /\ post.group_name = r.group_name
          /\ post.group_url = r.group_url
    /\ post.scraped_at \in ClockValues
    /\ post.created_at \in ClockValues
    /\ post.updated_at \in ClockValues
    /\ post.posted_at # NULL
    /\ post.notified \in BOOLEAN
    /\ post.ai_processed \in BOOLEAN
    /\ post.ai_processed <=> post.category # NULL

\* C30: a read of the posts endpoint or a single-post lookup made between
\* the steps of ingest() calls returns no torn record: a post is either not
\* returned, or returned with all the fields the insert sets.
C30_NoTornRecord == \A post \in Visible : Whole(post)

C30_Witness ==
    \E post \in Visible : \E w \in Workers :
        /\ ingest[w].pc = "persist"
        /\ ingest[w].branch = "insert"
        /\ PostIdOf(ingest[w]) = post.post_id
        /\ ~post.ai_processed
        /\ Whole(post)

\* C31: under fair scheduling every ingest() call that has started returns,
\* with the outcome Inserted, ClassificationUpdated or Skipped, and from
\* its return on the record of its post is stored with ai_processed set,
\* whatever the classifier answered.
C31_IngestConverges ==
    /\ [](\A w \in Workers :
             ingest[w].pc = "done" =>
                 /\ ingest[w].result \in {"Inserted", "ClassificationUpdated",
                                          "Skipped"}
                 /\ Exists(store, PostIdOf(ingest[w]))
                 /\ RowOf(store, PostIdOf(ingest[w])).ai_processed)
    /\ \A w \in Workers : InFlight(ingest[w]) ~> (ingest[w].pc = "done")

C31_Witness ==
    /\ \A w \in Workers : ingest[w].pc = "done"
    /\ {ingest[w].result : w \in Workers} = {"Inserted", "Skipped"}
    /\ \E w \in Workers :
           /\ ingest[w].result = "Inserted"
           /\ RowOf(store, PostIdOf(ingest[w])).ai_processed
           /\ RowOf(store, PostIdOf(ingest[w])).ai_features = NULL

\* C32: the external classifier is invoked by steps of ingest() calls only.
\* A step that counts an invocation is the step of one worker's ingest()
\* call, which counts it for its own post; a step of the posts endpoint, of
\* the single-post lookup or of the stats request counts none and moves no
\* ingest() call, wherever it falls between the steps of ingestion.
C32_ClassifierOnlyInIngest ==
    [][/\ \A p \in PostIds :
             classifierCalls'[p] # classifierCalls[p] =>
                 /\ classifierCalls'[p] = classifierCalls[p] + 1
                 /\ \E w \in Workers :
                        /\ ingest'[w].post_id = Some(p)
                        /\ ingest'[w].pc = "persist"
                        /\ ingest[w].pc # "persist"
                        /\ \A v \in Workers \ {w} : ingest'[v] = ingest[v]
                 /\ resp' = NoResponse
                 /\ statsReq' = statsReq
       /\ (resp' # NoResponse \/ statsReq' # statsReq) =>
             /\ classifierCalls' = classifierCalls
             /\ ingest' = ingest]_vars

C32_Witness ==
    /\ "by_group" \in DOMAIN resp
    /\ resp.total = 1
    /\ \E w \in Workers, p \in PostIds :
           /\ ingest[w].pc = "persist"
           /\ ingest[w].post_id = Some(p)
           /\ ~RowOf(store, p).ai_processed
           /\ classifierCalls[p] = 1

\* the tables that ingest(a) run to its return and then ingest(b), on the
\* empty table, can leave, over the answers the classifier may give
Sequential(a, b) ==
    {Saved(Saved(<< >>, [post |-> a, answer |-> x, legacy |-> FALSE], now),
           [post |-> b, answer |-> y, legacy |-> FALSE], now) :
        x \in ClassifierAnswers, y \in ClassifierAnswers}

\* C33: two ingest() calls for different post_ids that overlap in any way
\* do not disturb each other.  When both have returned, both have inserted,
\* and the table is one that running the two calls one after the other, in
\* one order or the other, leaves; while they run, every row in the table
\* is the row its own call has written so far, just inserted or with its own
\* classification.
C33_DifferentPostsCommute ==
    \A w1, w2 \in Workers :
        (/\ w1 # w2
         /\ started = 2
         /\ ingest[w1].post_id # NULL
         /\ ingest[w2].post_id # NULL
         /\ ingest[w1].post_id # ingest[w2].post_id) =>
            LET a == ingest[w1].raw[1]
                b == ingest[w2].raw[1]
                ends == Sequential(a, b) \cup Sequential(b, a)
            IN  /\ (ingest[w1].pc = "done" /\ ingest[w2].pc = "done") =>
                       /\ store \in ends
                       /\ ingest[w1].result = "Inserted"
                       /\ ingest[w2].result = "Inserted"
                /\ \A i \in DOMAIN store :
                       LET r == IF store[i].post_id = a.post_id THEN a ELSE b
                       IN  \/ store[i] = NewRow(r, Some(normalize(r.timestamp, now)),
                                                now)
                           \/ \E e \in ends : \E j \in DOMAIN e : e[j] = store[i]

C33_Witness ==
    /\ started = 2
    /\ \A w \in Workers : ingest[w].pc = "done" /\ ingest[w].result = "Inserted"
    /\ Len(store) = 2
    /\ store[1].post_id # store[2].post_id
    /\ store[1].ai_features = NULL
    /\ store[2].ai_features # NULL

\* C34: a comparison the sort makes between two posts takes one instant per
\* post: its result is the difference of the two posts' instants at the
\* reading of the clock the comparison began with, whatever the clock does
\* while it runs, and two posts with the same raw timestamp compare as
\* equal.
C34_SortUsesOneInstantPerPost ==
    sorting.pc = "done" =>
        /\ sorting.result.nan
               = (DateOf(sorting.a.timestamp, sorting.clock).nan
                  \/ DateOf(sorting.b.timestamp, sorting.clock).nan)
        /\ ~sorting.result.nan =>
               sorting.result.value
                   = DateOf(sorting.b.timestamp, sorting.clock).time
                     - DateOf(sorting.a.timestamp, sorting.clock).time
        /\ (sorting.a.timestamp = sorting.b.timestamp /\ ~sorting.result.nan) =>
               sorting.result.value = 0

\* C35: when no posts request of the dashboard is in flight, the list it
\* displays was assembled from responses to requests made with the filter
\* values now set, and from no other.
C35_ListMatchesFilters ==
    ~ui.loadingRef => ui.shownFor = {FiltersOf(ui)}

\* C36: when no load is in flight, the stored offset is the number of posts
\* displayed and no post_id is displayed twice.
C36_OffsetAndNoDuplicates ==
    ~ui.loadingRef =>
        /\ ui.offset = Len(ui.posts)
        /\ \A i, j \in DOMAIN ui.posts : i # j => ui.posts[i] # ui.posts[j]

\* C37: at most one debounce timer is pending; when none is pending the
\* applied search filter is the text in the search box; and the text in the
\* search box, unless it is typed over, eventually is the applied filter.
C37_DebouncedSearch ==
    /\ [](Len(ui.timers) <= 1)
    /\ [](ui.timers = << >> => ui.searchFilter = ui.searchInput)
    /\ \A value \in SearchChoices :
           (ui.searchInput = value)
               ~> (ui.searchFilter = value \/ ui.searchInput # value)

C37_Witness ==
    /\ ui.timers = << >>
    /\ ui.searchInput = <<"h", "j", "e", "l", "p">>
    /\ ui.searchFilter = <<"h", "j", "e", "l", "p">>
    /\ ui.request # NULL
    /\ ui.request[1].params.search = Some(<<"h", "j", "e", "l", "p">>)

\* C39: a request made with a group selected carries the group in the
\* parameter the handler filters by, and a list displayed for the selected
\* group holds posts of that group only.
C39_GroupFilterReachesHandler ==
    /\ (ui.request # NULL /\ ui.request[1].filters.group # << >>) =>
           queryOf(ui.request[1].params).group_url
               = Some(ui.request[1].filters.group)
    /\ (/\ ~ui.loadingRef
        /\ ui.groupFilter # << >>
        /\ ui.shownFor = {FiltersOf(ui)}) =>
           \A i \in DOMAIN ui.posts :
               includes(toLowerCase(RowOf(store, ui.posts[i]).group_name),
                        toLowerCase(ui.groupFilter))

\* the sum of the counts of a by_group list
RECURSIVE CountSum(_)
CountSum(f) == IF f = << >> THEN 0 ELSE Head(f).count + CountSum(Tail(f))

\* C38: in every stats response the by_group counts add up to total, and
\* new is at most total.
C38_StatsConsistent ==
    "by_group" \in DOMAIN resp =>
        /\ CountSum(resp.by_group) = resp.total
        /\ resp.new <= resp.total
====
